---- MODULE Spec2Model ----
(***************************************************************************)
(* Model of landlab/model_grid.py: the raster grid (RasterModelGrid), its  *)
(* boundary-condition operations and its gradient / flux-divergence        *)
(* operators.  Arrays are functions on 0..n-1, as numpy arrays are.        *)
(* Floating-point values are modelled by exact rationals <<num, den>>.     *)
(***************************************************************************)
EXTENDS Integers, Sequences, FiniteSets, TLC

\* ------------------------------------------------------------------------
\* Bounds of the model
\* ------------------------------------------------------------------------
MaxRows == 4
MaxCols == 5
MaxOps == 2
MaxIds == 1
MaxNoData == 1
MaxUnreported == 1

\* ------------------------------------------------------------------------
\* Program constants
\* ------------------------------------------------------------------------
INTERIOR_NODE == 0
FIXED_VALUE_BOUNDARY == 1
FIXED_GRADIENT_BOUNDARY == 2
TRACKS_CELL_BOUNDARY == 3
INACTIVE_BOUNDARY == 4
\* numpy.iinfo(numpy.int).max; the 32-bit value stands for it
BAD_INDEX_VALUE == 2147483647
\* the -1 that pads the inlink / outlink matrices
NO_LINK == -1
\* smallest row / column count initialize accepts
MinDim == 3
\* the no-data code of the deactivate_nodata_nodes example
NODATA == -9999

DxVals == {2}
NodataVals == {NODATA, 0}

\* ------------------------------------------------------------------------
\* Arrays
\* ------------------------------------------------------------------------
EmptyArr == [i \in {} |-> 0]

ALen(a) == Cardinality(DOMAIN a)

ToArr(s) == [i \in 0..(Len(s) - 1) |-> s[i + 1]]

\* a[idx]: numpy fancy indexing of a by an index array
Take(a, idx) == [k \in DOMAIN idx |-> a[idx[k]]]

RECURSIVE WhereSeq(_, _, _)
WhereSeq(mask, i, n) ==
    IF i >= n THEN <<>>
    ELSE (IF mask[i] THEN <<i>> ELSE <<>>) \o WhereSeq(mask, i + 1, n)

\* numpy.where(mask)[0]: the indices at which mask holds, ascending
Where(mask) == ToArr(WhereSeq(mask, 0, ALen(mask)))

\* Python 2 range(a, b, step) for step > 0, as a set
Range(a, b, step) ==
    IF b <= a THEN {} ELSE {a + k * step : k \in 0..((b - a - 1) \div step)}

RECURSIVE SubsetsUpTo(_, _)
SubsetsUpTo(S, k) ==
    IF k = 0 THEN {{}}
    ELSE LET P == SubsetsUpTo(S, k - 1)
         IN  P \cup {p \cup {x} : p \in P, x \in S}

\* ------------------------------------------------------------------------
\* Exact rationals <<num, den>>, den > 0, in lowest terms
\* ------------------------------------------------------------------------
Abs(x) == IF x < 0 THEN -x ELSE x

RECURSIVE GCD(_, _)
GCD(a, b) == IF b = 0 THEN a ELSE GCD(b, a % b)

Norm(n, d) ==
    LET g == GCD(Abs(n), Abs(d))
        s == IF d < 0 THEN -1 ELSE 1
    IN  <<(s * n) \div g, (s * d) \div g>>

Rat(n) == <<n, 1>>
RZero == Rat(0)
RAdd(a, b) == Norm(a[1] * b[2] + b[1] * a[2], a[2] * b[2])
RSub(a, b) == Norm(a[1] * b[2] - b[1] * a[2], a[2] * b[2])
RMul(a, b) == Norm(a[1] * b[1], a[2] * b[2])
RDiv(a, b) == Norm(a[1] * b[2], a[2] * b[1])
RNeg(a) == <<-a[1], a[2]>>

\* ------------------------------------------------------------------------
\* State
\* ------------------------------------------------------------------------
VARIABLES
    built,                      \* initialize has completed
    nrows, ncols, dx, cellarea,
    num_nodes, num_cells, num_active_cells, num_links, num_active_links,
    num_faces,
    node_status,
    cell_node, node_activecell, activecell_node,
    link_fromnode, link_tonode, link_face,
    node_numinlink, node_numoutlink, node_inlink_matrix, node_outlink_matrix,
    active_links, activelink_fromnode, activelink_tonode,
    node_numactiveinlink, node_numactiveoutlink,
    node_active_inlink_matrix, node_active_outlink_matrix,
    face_width, active_cell_areas, link_length,
    nops,                       \* boundary operations called so far
    last_op,                    \* the method called last
    arg,                        \* the arguments it was called with
    ret,                        \* the array it returned, if it returns one
    raised,                     \* the exception it raised, "" if none
    buffer                      \* the caller's output array, << >> if none

shapeVars == <<nrows, ncols, dx, cellarea, num_nodes, num_cells,
               num_active_cells, num_links, num_faces>>
cellVars == <<cell_node, node_activecell>>
linkVars == <<link_fromnode, link_tonode, link_face, node_numinlink,
              node_numoutlink, node_inlink_matrix, node_outlink_matrix>>
activeVars == <<num_active_links, active_links, activelink_fromnode,
                activelink_tonode, node_numactiveinlink,
                node_numactiveoutlink, node_active_inlink_matrix,
                node_active_outlink_matrix>>
callVars == <<last_op, arg, ret, raised>>
\* the arrays only a VoronoiDelaunayGrid sets
voronoiVars == <<face_width, active_cell_areas, link_length>>
vars == <<built, shapeVars, node_status, cellVars, activecell_node, linkVars,
          activeVars, voronoiVars, nops, callVars, buffer>>

Nodes == 0..(num_nodes - 1)
Links == 0..(num_links - 1)

\* ------------------------------------------------------------------------
\* Raster topology (RasterModelGrid.initialize)
\* ------------------------------------------------------------------------
IsPerimeter(R, C, n) ==
    LET r == n \div C
        c == n % C
    IN  r = 0 \/ r = R - 1 \/ c = 0 \/ c = C - 1

\* sgrid.node_status(shape, boundary_status=FIXED_VALUE_BOUNDARY): all
\* perimeter nodes are fixed-value boundaries, the others interior
RasterNodeStatus(R, C) ==
    [n \in 0..(R * C - 1) |->
        IF IsPerimeter(R, C, n) THEN FIXED_VALUE_BOUNDARY ELSE INTERIOR_NODE]

\* sgrid.cell_node_index(shape): the node of each cell, row-major
CellNodeIndex(R, C) ==
    ToArr(WhereSeq([n \in 0..(R * C - 1) |-> ~IsPerimeter(R, C, n)], 0, R * C))

\* sgrid.node_active_cell(shape): the cell of each node, or BAD_INDEX_VALUE
NodeActiveCell(R, C) ==
    [n \in 0..(R * C - 1) |->
        IF IsPerimeter(R, C, n) THEN BAD_INDEX_VALUE
        ELSE ((n \div C) - 1) * (C - 2) + ((n % C) - 1)]

\* the two link-numbering loops: <<from, to>> of each vertical link ...
RECURSIVE VerticalLinks(_, _, _, _)
VerticalLinks(r, c, R, C) ==
    IF r >= R - 1 THEN <<>>
    ELSE IF c >= C THEN VerticalLinks(r + 1, 0, R, C)
    ELSE <<<<c + r * C, c + (r + 1) * C>>>> \o VerticalLinks(r, c + 1, R, C)

\* ... and of each horizontal link
RECURSIVE HorizontalLinks(_, _, _, _)
HorizontalLinks(r, c, R, C) ==
    IF r >= R THEN <<>>
    ELSE IF c >= C - 1 THEN HorizontalLinks(r + 1, 0, R, C)
    ELSE <<<<c + r * C, c + r * C + 1>>>> \o HorizontalLinks(r, c + 1, R, C)

\* the two passes in the other order
RasterLinks_HorizontalFirst(R, C) ==
    HorizontalLinks(0, 0, R, C) \o VerticalLinks(0, 0, R, C)

RasterLinks(R, C) == VerticalLinks(0, 0, R, C) \o HorizontalLinks(0, 0, R, C)

LinkFromNode(R, C) ==
    LET ls == RasterLinks(R, C) IN [l \in 0..(Len(ls) - 1) |-> ls[l + 1][1]]

LinkToNode(R, C) ==
    LET ls == RasterLinks(R, C) IN [l \in 0..(Len(ls) - 1) |-> ls[l + 1][2]]

NumNodes(R, C) == R * C
NumCells(R, C) == (R - 2) * (C - 2)
NumLinks(R, C) == C * (R - 1) + R * (C - 1)
\* the count initialize writes before the active links are derived
ClosedFormActiveLinks(R, C) == NumLinks(R, C) - (2 * (C - 1) + 2 * (R - 1))
NumFaces(R, C) == (R - 1) * (C - 2) + (R - 2) * (C - 1)

\* ------------------------------------------------------------------------
\* Active links (ModelGrid.reset_list_of_active_links)
\* ------------------------------------------------------------------------
\* variants of the rule: one that forgets the INACTIVE test, one that asks
\* for two interior ends
LinkIsActive_IgnoresInactive(fromnode_status, tonode_status) ==
    fromnode_status = INTERIOR_NODE \/ tonode_status = INTERIOR_NODE

LinkIsActive_BothInterior(fromnode_status, tonode_status) ==
    fromnode_status = INTERIOR_NODE /\ tonode_status = INTERIOR_NODE

\* the activation rule on the statuses of a link's two ends
LinkIsActive(fromnode_status, tonode_status) ==
    \/ (fromnode_status = INTERIOR_NODE /\ ~(tonode_status = INACTIVE_BOUNDARY))
    \/ (tonode_status = INTERIOR_NODE /\ ~(fromnode_status = INACTIVE_BOUNDARY))

ActiveLinks(status, lfrom, lto) ==
    Where([l \in DOMAIN lfrom |-> LinkIsActive(status[lfrom[l]], status[lto[l]])])

\* for each node v, the positions in `ends` at which v occurs
Occurrences(ends, n) ==
    [v \in 0..(n - 1) |-> {k \in DOMAIN ends : ends[k] = v}]

\* numpy.bincount(ends, minlength=n)
BinCount(occ) == [v \in DOMAIN occ |-> Cardinality(occ[v])]

\* a matrix with its first row only
LinkMatrix_FirstRowOnly(occ) ==
    [count \in 0..1 |->
        [v \in DOMAIN occ |->
            IF count = 0 /\ occ[v] # {}
            THEN CHOOSE k \in occ[v] : \A j \in occ[v] : k <= j
            ELSE NO_LINK]]

\* count_repeated_values: row `count` of the matrix holds, at node v, the
\* position in `ends` of the (count+1)-th occurrence of v; -1 where none
LinkMatrix(occ) ==
    [count \in 0..1 |->
        [v \in DOMAIN occ |->
            IF count < Cardinality(occ[v])
            THEN CHOOSE k \in occ[v] : Cardinality({j \in occ[v] : j < k}) = count
            ELSE NO_LINK]]

\* the matrix of ModelGrid.setup_active_inlink_and_outlink_matrices, which
\* has max_num_nbrs rows
LinkMatrixRows(occ, rows) ==
    [count \in 0..(rows - 1) |->
        [v \in DOMAIN occ |->
            IF count < Cardinality(occ[v])
            THEN CHOOSE k \in occ[v] : Cardinality({j \in occ[v] : j < k}) = count
            ELSE NO_LINK]]

\* setup_inlink_and_outlink_matrices: the counts and the matrices of all
\* links, of two rows on a raster grid and max_num_nbrs rows otherwise
SetupInlinkAndOutlinkMatrices(lfrom, lto, n, rows) ==
    /\ node_numinlink' = BinCount(Occurrences(lto, n))
    /\ node_inlink_matrix' = LinkMatrixRows(Occurrences(lto, n), rows)
    /\ node_numoutlink' = BinCount(Occurrences(lfrom, n))
    /\ node_outlink_matrix' = LinkMatrixRows(Occurrences(lfrom, n), rows)

\* faces numbered by the link's own ID
LinkFaces_ByLinkId(nlinks, actives) ==
    [l \in 0..(nlinks - 1) |->
        IF \E k \in DOMAIN actives : actives[k] = l THEN l
        ELSE BAD_INDEX_VALUE]

\* link_face: the active links of the new grid get the face IDs 0, 1, ...
\* in order; the other links have none
LinkFaces(nlinks, actives) ==
    [l \in 0..(nlinks - 1) |->
        IF \E k \in DOMAIN actives : actives[k] = l
        THEN CHOOSE k \in DOMAIN actives : actives[k] = l
        ELSE BAD_INDEX_VALUE]

\* ------------------------------------------------------------------------
\* Boundary-condition operations, as functions of the status array
\* ------------------------------------------------------------------------
\* node_status[ids] = code
Assign(status, ids, code) ==
    [n \in DOMAIN status |-> IF n \in ids THEN code ELSE status[n]]

\* every edge left a fixed-value boundary
EdgeCode_AlwaysFixed(is_inactive) == FIXED_VALUE_BOUNDARY

\* the status code for an edge: inactive if its flag is set
EdgeCode(is_inactive) ==
    IF is_inactive THEN INACTIVE_BOUNDARY ELSE FIXED_VALUE_BOUNDARY

\* bottom_edge, right_edge, top_edge and left_edge: the node IDs each range
\* yields
BottomEdge(R, C) == Range(0, C - 1, 1)

RightEdge(R, C) == Range(C - 1, R * C - 1, C)

TopEdge(R, C) == Range((R - 1) * C + 1, R * C, 1)

\* a left edge that starts at the bottom-left corner
LeftEdge_FromZero(R, C) == Range(0, R * C, C)

LeftEdge(R, C) == Range(C, R * C, C)

\* RasterModelGrid.set_inactive_boundaries: the four edge assignments
SetInactiveStatus(status, R, C, bottom, right, top, left) ==
    LET s1 == Assign(status, BottomEdge(R, C), EdgeCode(bottom))
        s2 == Assign(s1, RightEdge(R, C), EdgeCode(right))
        s3 == Assign(s2, TopEdge(R, C), EdgeCode(top))
    IN  Assign(s3, LeftEdge(R, C), EdgeCode(left))

\* a status assignment that reopens a no-data node that was already inactive
DeactivateStatus_Toggle(status, node_data, nodata_value) ==
    [n \in DOMAIN status |->
        IF node_data[n] = nodata_value
        THEN (IF status[n] = INACTIVE_BOUNDARY THEN FIXED_VALUE_BOUNDARY
              ELSE INACTIVE_BOUNDARY)
        ELSE status[n]]

\* ModelGrid.deactivate_nodata_nodes: the status assignment
DeactivateStatus(status, node_data, nodata_value) ==
    Assign(status, {n \in DOMAIN node_data : node_data[n] = nodata_value},
           INACTIVE_BOUNDARY)

\* node_ids[numpy.where(node_status == INTERIOR_NODE)]
InteriorNodes(status) ==
    Where([n \in DOMAIN status |-> status[n] = INTERIOR_NODE])

\* ------------------------------------------------------------------------
\* Differential operators
\* ------------------------------------------------------------------------
Zeros(n) == [k \in 0..(n - 1) |-> RZero]

\* a[i] with Python's negative indexing
PyIndex(a, i) == IF i < 0 THEN a[ALen(a) + i] ELSE a[i]

\* the gradient taken from the to-node to the from-node
CalcGradients_Swapped(s) ==
    [k \in DOMAIN activelink_tonode |->
        RDiv(RSub(s[activelink_fromnode[k]], s[activelink_tonode[k]]), Rat(dx))]

\* RasterModelGrid.calculate_gradients_at_active_links
CalcGradients(s) ==
    [k \in DOMAIN activelink_tonode |->
        RDiv(RSub(s[activelink_tonode[k]], s[activelink_fromnode[k]]), Rat(dx))]

\* RasterModelGrid.calculate_gradients_at_active_links_slow: the loop
RECURSIVE GradientLoopSlow(_, _, _)
GradientLoopSlow(s, active_link_id, gradient) ==
    IF active_link_id >= ALen(active_links) THEN gradient
    ELSE LET link_id == active_links[active_link_id]
         IN  GradientLoopSlow(s, active_link_id + 1,
                 [gradient EXCEPT ![active_link_id] =
                     RDiv(RSub(s[link_tonode[link_id]], s[link_fromnode[link_id]]),
                          Rat(dx))])

CalcGradientsSlow(s) == GradientLoopSlow(s, 0, Zeros(num_active_links))

\* ModelGrid.calculate_gradients_at_active_links: the loop, which divides
\* by link_length[link_id]
RECURSIVE GradientLoopBase(_, _, _, _)
GradientLoopBase(s, lengths, active_link_id, gradient) ==
    IF active_link_id >= ALen(active_links) THEN gradient
    ELSE LET link_id == active_links[active_link_id]
         IN  GradientLoopBase(s, lengths, active_link_id + 1,
                 [gradient EXCEPT ![active_link_id] =
                     RDiv(RSub(s[link_tonode[link_id]], s[link_fromnode[link_id]]),
                          lengths[link_id])])

CalcGradientsBase(s, lengths) ==
    GradientLoopBase(s, lengths, 0, Zeros(num_active_links))

\* the gather that reads only the first row of each matrix
FluxDivAtNodes_OneRow(active_link_flux) ==
    LET n == ALen(active_link_flux)
        flux == [k \in 0..n |->
                    IF k < n THEN RMul(active_link_flux[k], Rat(dx)) ELSE RZero]
    IN  [v \in Nodes |->
            RDiv(RSub(PyIndex(flux, node_active_outlink_matrix[0][v]),
                      PyIndex(flux, node_active_inlink_matrix[0][v])),
                 Rat(cellarea))]

\* RasterModelGrid.calculate_flux_divergence_at_nodes: the gather through
\* the active inlink / outlink matrices, with a zero in the extra last slot
FluxDivAtNodes(active_link_flux) ==
    LET n == ALen(active_link_flux)
        flux == [k \in 0..n |->
                    IF k < n THEN RMul(active_link_flux[k], Rat(dx)) ELSE RZero]
    IN  [v \in Nodes |->
            RDiv(RSub(RAdd(PyIndex(flux, node_active_outlink_matrix[0][v]),
                           PyIndex(flux, node_active_outlink_matrix[1][v])),
                      RAdd(PyIndex(flux, node_active_inlink_matrix[0][v]),
                           PyIndex(flux, node_active_inlink_matrix[1][v]))),
                 Rat(cellarea))]

\* RasterModelGrid.calculate_flux_divergence_at_active_cells
FluxDivAtActiveCells(active_link_flux) ==
    Take(FluxDivAtNodes(active_link_flux), activecell_node)

\* RasterModelGrid.calculate_flux_divergence_at_active_cells_slow: the loop
RECURSIVE CellFluxLoopSlow(_, _, _)
CellFluxLoopSlow(active_link_flux, active_link_id, net_unit_flux) ==
    IF active_link_id >= ALen(active_links) THEN net_unit_flux
    ELSE LET link_id == active_links[active_link_id]
             from_cell == node_activecell[link_fromnode[link_id]]
             to_cell == node_activecell[link_tonode[link_id]]
             total_flux == RMul(active_link_flux[active_link_id], Rat(dx))
             n1 == IF from_cell # BAD_INDEX_VALUE
                   THEN [net_unit_flux EXCEPT ![from_cell] = RAdd(@, total_flux)]
                   ELSE net_unit_flux
             n2 == IF to_cell # BAD_INDEX_VALUE
                   THEN [n1 EXCEPT ![to_cell] = RSub(@, total_flux)]
                   ELSE n1
         IN  CellFluxLoopSlow(active_link_flux, active_link_id + 1, n2)

FluxDivAtActiveCellsSlow(active_link_flux) ==
    LET net == CellFluxLoopSlow(active_link_flux, 0, Zeros(num_active_cells))
    IN  [c \in DOMAIN net |-> RDiv(net[c], Rat(cellarea))]

\* RasterModelGrid.calculate_flux_divergence_at_nodes_slow: the loop
RECURSIVE NodeFluxLoopSlow(_, _, _)
NodeFluxLoopSlow(active_link_flux, active_link_id, net_unit_flux) ==
    IF active_link_id >= ALen(active_links) THEN net_unit_flux
    ELSE LET link_id == active_links[active_link_id]
             from_node == link_fromnode[link_id]
             from_cell == node_activecell[from_node]
             to_node == link_tonode[link_id]
             to_cell == node_activecell[to_node]
             total_flux == RMul(active_link_flux[active_link_id], Rat(dx))
             n1 == IF from_cell # BAD_INDEX_VALUE
                   THEN [net_unit_flux EXCEPT ![from_node] =
                            RAdd(@, RDiv(total_flux, Rat(cellarea)))]
                   ELSE net_unit_flux
             n2 == IF to_cell # BAD_INDEX_VALUE
                   THEN [n1 EXCEPT ![to_node] =
                            RSub(@, RDiv(total_flux, Rat(cellarea)))]
                   ELSE n1
         IN  NodeFluxLoopSlow(active_link_flux, active_link_id + 1, n2)

FluxDivAtNodesSlow(active_link_flux) ==
    NodeFluxLoopSlow(active_link_flux, 0, Zeros(num_nodes))

\* ModelGrid.calculate_flux_divergence_at_nodes: the loop, with the width
\* of the link's face and the area of the node's cell
RECURSIVE NodeFluxLoopBase(_, _, _, _, _)
NodeFluxLoopBase(active_link_flux, widths, areas, active_link_id, net) ==
    IF active_link_id >= ALen(active_links) THEN net
    ELSE LET link_id == active_links[active_link_id]
             from_node == link_fromnode[link_id]
             from_cell == node_activecell[from_node]
             to_node == link_tonode[link_id]
             to_cell == node_activecell[to_node]
             total_flux == RMul(active_link_flux[active_link_id],
                                widths[link_face[link_id]])
             n1 == IF from_cell # BAD_INDEX_VALUE
                   THEN [net EXCEPT ![from_node] =
                            RAdd(@, RDiv(total_flux, areas[from_cell]))]
                   ELSE net
             n2 == IF to_cell # BAD_INDEX_VALUE
                   THEN [n1 EXCEPT ![to_node] =
                            RSub(@, RDiv(total_flux, areas[to_cell]))]
                   ELSE n1
         IN  NodeFluxLoopBase(active_link_flux, widths, areas,
                              active_link_id + 1, n2)

FluxDivAtNodesBase(active_link_flux, widths, areas) ==
    NodeFluxLoopBase(active_link_flux, widths, areas, 0,
                     Zeros(num_nodes))

\* the node fields and flux arrays the operators are called with
FieldCoeffs == {<<1, 0>>, <<2, 3>>}

NodeFields ==
    {[n \in Nodes |-> Rat((c[1] * n * n + c[2] * n) % 7)] : c \in FieldCoeffs}

NegArr(a) == [k \in DOMAIN a |-> RNeg(a[k])]

FluxArrays ==
    IF built
    THEN {[k \in 0..(num_active_links - 1) |->
             Rat(((c[1] * k * k + c[2] * k) % 7) - 3)] : c \in FieldCoeffs}
         \cup {NegArr(CalcGradients(u)) : u \in NodeFields}
    ELSE {}

\* ------------------------------------------------------------------------
\* Actions
\* ------------------------------------------------------------------------
\* RasterModelGrid(): no dimensions given, nothing is set up
Init ==
    /\ built = FALSE
    /\ nrows = 0 /\ ncols = 0 /\ dx = 0 /\ cellarea = 0
    /\ num_nodes = 0 /\ num_cells = 0 /\ num_active_cells = 0
    /\ num_links = 0 /\ num_active_links = 0 /\ num_faces = 0
    /\ node_status = EmptyArr
    /\ cell_node = EmptyArr /\ node_activecell = EmptyArr
    /\ activecell_node = EmptyArr
    /\ link_fromnode = EmptyArr /\ link_tonode = EmptyArr
    /\ link_face = EmptyArr
    /\ node_numinlink = EmptyArr
    /\ node_numoutlink = EmptyArr
    /\ node_inlink_matrix = EmptyArr
    /\ node_outlink_matrix = EmptyArr
    /\ active_links = EmptyArr
    /\ activelink_fromnode = EmptyArr /\ activelink_tonode = EmptyArr
    /\ node_numactiveinlink = EmptyArr /\ node_numactiveoutlink = EmptyArr
    /\ node_active_inlink_matrix = EmptyArr
    /\ node_active_outlink_matrix = EmptyArr
    /\ face_width = EmptyArr /\ active_cell_areas = EmptyArr
    /\ link_length = EmptyArr
    /\ buffer = EmptyArr
    /\ nops = 0
    /\ last_op = "__init__"
    /\ arg = EmptyArr
    /\ ret = EmptyArr
    /\ raised = ""

\* a rebuild that keeps the per-node counts it finds
ResetListOfActiveLinks_KeepsCounts(status, lfrom, lto, n) ==
    LET al == ActiveLinks(status, lfrom, lto)
        af == Take(lfrom, al)
        at == Take(lto, al)
    IN  /\ active_links' = al
        /\ num_active_links' = ALen(al)
        /\ activelink_fromnode' = af
        /\ activelink_tonode' = at
        /\ node_active_inlink_matrix' = LinkMatrix(Occurrences(at, n))
        /\ node_active_outlink_matrix' = LinkMatrix(Occurrences(af, n))
        /\ UNCHANGED <<node_numactiveinlink, node_numactiveoutlink>>

\* reset_list_of_active_links with setup_active_inlink_and_outlink_matrices
ResetListOfActiveLinks(status, lfrom, lto, n) ==
    LET al == ActiveLinks(status, lfrom, lto)
        af == Take(lfrom, al)
        at == Take(lto, al)
        inocc == Occurrences(at, n)
        outocc == Occurrences(af, n)
    IN  /\ active_links' = al
        /\ num_active_links' = ALen(al)
        /\ activelink_fromnode' = af
        /\ activelink_tonode' = at
        /\ node_numactiveinlink' = BinCount(inocc)
        /\ node_active_inlink_matrix' = LinkMatrix(inocc)
        /\ node_numactiveoutlink' = BinCount(outocc)
        /\ node_active_outlink_matrix' = LinkMatrix(outocc)

Called(op, a) ==
    /\ last_op' = op /\ arg' = a /\ ret' = EmptyArr /\ raised' = ""
    /\ UNCHANGED <<voronoiVars, buffer>>

\* the method raised: no value is returned
Raised(op, a, exception) ==
    /\ last_op' = op /\ arg' = a /\ ret' = EmptyArr /\ raised' = exception
    /\ UNCHANGED <<voronoiVars, buffer>>

\* The operators change no field of the grid, so a call that follows one
\* reaches no grid state that is not reached without it: the model explores
\* the calls that follow a boundary operation or the build.
Operators ==
    {"calculate_gradients_at_active_links",
     "calculate_flux_divergence_at_nodes",
     "calculate_flux_divergence_at_active_cells"}

\* the array factories, which change no field of the grid either
Factories == {"zeros", "ones", "empty"}

\* RasterModelGrid.initialize(num_rows, num_cols, dx), called as op: the
\* sizes are assigned first, then the dimensions are asserted, then the
\* arrays are set up
InitializeAs(op, R, C, d) ==
    /\ nrows' = R /\ ncols' = C /\ dx' = d /\ cellarea' = d * d
    /\ num_nodes' = NumNodes(R, C)
    /\ num_cells' = NumCells(R, C)
    /\ num_active_cells' = NumCells(R, C)
    /\ num_links' = NumLinks(R, C)
    /\ IF R >= MinDim /\ C >= MinDim
       THEN /\ built' = TRUE
            /\ num_faces' = NumFaces(R, C)
            /\ node_status' = RasterNodeStatus(R, C)
            /\ cell_node' = CellNodeIndex(R, C)
            /\ node_activecell' = NodeActiveCell(R, C)
            /\ activecell_node' = CellNodeIndex(R, C)
            /\ link_fromnode' = LinkFromNode(R, C)
            /\ link_tonode' = LinkToNode(R, C)
            /\ ResetListOfActiveLinks(RasterNodeStatus(R, C),
                                      LinkFromNode(R, C), LinkToNode(R, C),
                                      NumNodes(R, C))
            /\ SetupInlinkAndOutlinkMatrices(LinkFromNode(R, C),
                                              LinkToNode(R, C),
                                              NumNodes(R, C), 2)
            /\ link_face' = LinkFaces(NumLinks(R, C), active_links')
            /\ Called(op, <<R, C, d>>)
       ELSE /\ built' = FALSE
            /\ num_active_links' = ClosedFormActiveLinks(R, C)
            /\ Raised(op, <<R, C, d>>, "AssertionError")
            /\ UNCHANGED <<num_faces, node_status, cellVars, activecell_node,
                           linkVars, active_links, activelink_fromnode,
                           activelink_tonode, node_numactiveinlink,
                           node_numactiveoutlink, node_active_inlink_matrix,
                           node_active_outlink_matrix>>
    /\ nops' = 0

\* a call made on a grid object: the last call returned, and nothing
\* follows a call that only computes an array; nor is the grid that
\* create_and_initialize_grid returns followed further, as the constructor
\* and set_inactive_boundaries reach the same grid
Idle ==
    /\ raised = ""
    /\ last_op \notin Operators \cup Factories \cup {"create_and_initialize_grid"}

\* initialize, called on a grid before any boundary operation
Initialize(R, C, d) ==
    /\ Idle /\ nops = 0
    /\ InitializeAs("initialize", R, C, d)

\* a constructor that calls initialize whatever the dimensions
Construct_AlwaysInitializes(R, C, d) ==
    /\ last_op = "__init__"
    /\ InitializeAs("RasterModelGrid", R, C, d)

\* RasterModelGrid(num_rows, num_cols, dx): a new grid object, initialized
\* if the dimensions give it any node
Construct(R, C, d) ==
    /\ last_op = "__init__"
    /\ IF R * C > 0
       THEN InitializeAs("RasterModelGrid", R, C, d)
       ELSE /\ num_nodes' = R * C
            /\ Called("RasterModelGrid", <<R, C, d>>)
            /\ UNCHANGED <<built, nrows, ncols, dx, cellarea, num_cells,
                           num_active_cells, num_links, num_faces, node_status,
                           cellVars, activecell_node, linkVars, activeVars,
                           nops>>

Configurable == built /\ nops < MaxOps /\ Idle

Callable == built /\ Idle

\* ModelGrid.set_fixed_value_boundaries(node_ids)
SetFixedValueBoundaries(node_ids) ==
    /\ Configurable
    /\ node_status' = Assign(node_status, node_ids, FIXED_VALUE_BOUNDARY)
    /\ ResetListOfActiveLinks(node_status', link_fromnode, link_tonode, num_nodes)
    /\ nops' = nops + 1
    /\ Called("set_fixed_value_boundaries", EmptyArr)
    /\ UNCHANGED <<built, shapeVars, cellVars, activecell_node, linkVars>>

\* RasterModelGrid.set_inactive_boundaries(bottom, right, top, left)
SetInactiveBoundaries(bottom, right, top, left) ==
    /\ Configurable
    /\ node_status' = SetInactiveStatus(node_status, nrows, ncols,
                                        bottom, right, top, left)
    /\ ResetListOfActiveLinks(node_status', link_fromnode, link_tonode, num_nodes)
    /\ nops' = nops + 1
    /\ Called("set_inactive_boundaries",
              [bottom |-> bottom, right |-> right, top |-> top, left |-> left])
    /\ UNCHANGED <<built, shapeVars, cellVars, activecell_node, linkVars>>

\* ModelGrid.deactivate_nodata_nodes(node_data, nodata_value)
DeactivateNodataNodes(node_data, nodata_value) ==
    /\ Configurable
    /\ node_status' = DeactivateStatus(node_status, node_data, nodata_value)
    /\ activecell_node' = InteriorNodes(node_status')
    /\ ResetListOfActiveLinks(node_status', link_fromnode, link_tonode, num_nodes)
    /\ nops' = nops + 1
    /\ Called("deactivate_nodata_nodes",
              [node_data |-> node_data, nodata_value |-> nodata_value])
    /\ UNCHANGED <<built, shapeVars, cellVars, linkVars>>

\* the node_data arrays tried: the no-data code at up to MaxNoData nodes
NodeDataArrays ==
    {[n \in Nodes |-> IF n \in D THEN NODATA ELSE 0] :
        D \in SubsetsUpTo(Nodes, MaxNoData)}

Next ==
    \/ \E R \in 0..MaxRows, C \in 0..MaxCols, d \in DxVals :
           Initialize(R, C, d)
    \/ \E R \in 0..MaxRows, C \in 0..MaxCols, d \in DxVals :
           Construct(R, C, d)
    \/ \E node_ids \in SubsetsUpTo(Nodes, MaxIds) :
           SetFixedValueBoundaries(node_ids)
    \/ \E b, r, t, l \in BOOLEAN : SetInactiveBoundaries(b, r, t, l)
    \/ \E node_data \in NodeDataArrays, nodata_value \in NodataVals :
           DeactivateNodataNodes(node_data, nodata_value)

Spec == Init /\ [][Next]_vars

\* ------------------------------------------------------------------------
\* reset_list_of_active_links and reset_list_of_active_links_slow, called
\* on a raster grid
\* ------------------------------------------------------------------------
\* the loop of reset_list_of_active_links_slow from link `link` on: the
\* Python list of the links appended
RECURSIVE ActiveLinksLoopSlow(_, _, _, _, _)
ActiveLinksLoopSlow(status, lfrom, lto, link, acc) ==
    IF link >= ALen(lfrom) THEN acc
    ELSE LET fromnode_status == status[lfrom[link]]
             tonode_status == status[lto[link]]
         IN  ActiveLinksLoopSlow(status, lfrom, lto, link + 1,
                 IF \/ (fromnode_status = INTERIOR_NODE
                        /\ ~(tonode_status = INACTIVE_BOUNDARY))
                    \/ (tonode_status = INTERIOR_NODE
                        /\ ~(fromnode_status = INACTIVE_BOUNDARY))
                 THEN Append(acc, link) ELSE acc)

ActiveLinksSlow(status, lfrom, lto) ==
    ToArr(ActiveLinksLoopSlow(status, lfrom, lto, 0, <<>>))

\* the loop of RasterModelGrid.setup_active_inlink_and_outlink_matrices_slow
\* from active link `id` on; m holds the two counts and the two matrices
RECURSIVE ActiveMatricesLoopSlow(_, _, _, _)
ActiveMatricesLoopSlow(af, at, id, m) ==
    IF id >= ALen(af) THEN m
    ELSE LET tonode == at[id]
             inlinknum == m.numin[tonode]
             fromnode == af[id]
             outlinknum == m.numout[fromnode]
         IN  ActiveMatricesLoopSlow(af, at, id + 1,
                 [numin |-> [m.numin EXCEPT ![tonode] = @ + 1],
                  inmat |-> [m.inmat EXCEPT ![inlinknum][tonode] = id],
                  numout |-> [m.numout EXCEPT ![fromnode] = @ + 1],
                  outmat |-> [m.outmat EXCEPT ![outlinknum][fromnode] = id]])

ActiveMatricesSlow(af, at, n) ==
    LET none == [count \in 0..1 |-> [v \in 0..(n - 1) |-> NO_LINK]]
        zero == [v \in 0..(n - 1) |-> 0]
    IN  ActiveMatricesLoopSlow(af, at, 0,
            [numin |-> zero, inmat |-> none, numout |-> zero, outmat |-> none])

\* grid.reset_list_of_active_links()
CallResetListOfActiveLinks ==
    /\ Configurable
    /\ ResetListOfActiveLinks(node_status, link_fromnode, link_tonode, num_nodes)
    /\ nops' = nops + 1
    /\ Called("reset_list_of_active_links", EmptyArr)
    /\ UNCHANGED <<built, shapeVars, node_status, cellVars, activecell_node,
                   linkVars>>

\* grid.reset_list_of_active_links_slow(). With no link active,
\* numpy.array([]) is an array of floats: using it as an index gives an
\* empty array where numpy casts index arrays (float_index) and is an
\* IndexError where it does not; by then active_links and num_active_links
\* are already assigned.
CallResetListOfActiveLinksSlow(float_index) ==
    LET al == ActiveLinksSlow(node_status, link_fromnode, link_tonode)
        af == Take(link_fromnode, al)
        at == Take(link_tonode, al)
        m == ActiveMatricesSlow(af, at, num_nodes)
    IN  /\ Configurable
        /\ active_links' = al
        /\ num_active_links' = ALen(al)
        /\ IF ALen(al) = 0 /\ ~float_index
           THEN /\ Raised("reset_list_of_active_links_slow", EmptyArr,
                          "IndexError")
                /\ UNCHANGED <<activelink_fromnode, activelink_tonode,
                               node_numactiveinlink, node_numactiveoutlink,
                               node_active_inlink_matrix,
                               node_active_outlink_matrix>>
           ELSE /\ Called("reset_list_of_active_links_slow", EmptyArr)
                /\ activelink_fromnode' = af
                /\ activelink_tonode' = at
                /\ node_numactiveinlink' = m.numin
                /\ node_active_inlink_matrix' = m.inmat
                /\ node_numactiveoutlink' = m.numout
                /\ node_active_outlink_matrix' = m.outmat
        /\ nops' = nops + 1
        /\ UNCHANGED <<built, shapeVars, node_status, cellVars,
                       activecell_node, linkVars>>

NextReset ==
    \/ Next
    \/ CallResetListOfActiveLinks
    \/ \E float_index \in BOOLEAN : CallResetListOfActiveLinksSlow(float_index)

SpecReset == Init /\ [][NextReset]_vars

Returned(op, a, r) ==
    /\ last_op' = op /\ arg' = a /\ ret' = r /\ raised' = ""
    /\ UNCHANGED <<built, shapeVars, node_status, cellVars, activecell_node,
                   linkVars, activeVars, voronoiVars, nops, buffer>>

\* RasterModelGrid.calculate_gradients_at_active_links(s)
CalculateGradientsAtActiveLinks(s) ==
    /\ Callable
    /\ Returned("calculate_gradients_at_active_links", s, CalcGradients(s))

\* RasterModelGrid.calculate_flux_divergence_at_nodes(active_link_flux)
CalculateFluxDivergenceAtNodes(active_link_flux) ==
    /\ Callable
    /\ ALen(active_link_flux) = num_active_links
    /\ Returned("calculate_flux_divergence_at_nodes", active_link_flux,
                FluxDivAtNodes(active_link_flux))

\* RasterModelGrid.calculate_flux_divergence_at_active_cells(active_link_flux)
CalculateFluxDivergenceAtActiveCells(active_link_flux) ==
    /\ Callable
    /\ ALen(active_link_flux) = num_active_links
    /\ Returned("calculate_flux_divergence_at_active_cells", active_link_flux,
                FluxDivAtActiveCells(active_link_flux))

NextCalc ==
    \/ Next
    \/ \E s \in NodeFields : CalculateGradientsAtActiveLinks(s)
    \/ \E f \in FluxArrays : CalculateFluxDivergenceAtNodes(f)
    \/ \E f \in FluxArrays : CalculateFluxDivergenceAtActiveCells(f)

SpecCalc == Init /\ [][NextCalc]_vars

\* a centering with one more name
ARRAY_LENGTH_ATTRIBUTES_WithPatch ==
    [node |-> "num_nodes", cell |-> "num_active_cells",
     link |-> "num_active_links", face |-> "num_faces",
     patch |-> "num_nodes"]

\* _ARRAY_LENGTH_ATTRIBUTES: the attribute that holds the count of each
\* grid element
ARRAY_LENGTH_ATTRIBUTES ==
    [node |-> "num_nodes", cell |-> "num_active_cells",
     link |-> "num_active_links", face |-> "num_faces"]

\* the attributes a grid object has: num_nodes from the constructor, the
\* others once initialize has run
HasAttr(name) == name = "num_nodes" \/ built

\* getattr(self, name)
GetAttr(name) ==
    CASE name = "num_nodes" -> num_nodes
      [] name = "num_active_cells" -> num_active_cells
      [] name = "num_active_links" -> num_active_links
      [] name = "num_faces" -> num_faces

\* kwds.pop('centering', 'node')
PopCentering(kwds) ==
    IF "centering" \in DOMAIN kwds THEN kwds.centering ELSE "node"

\* numpy.zeros(n), numpy.ones(n) or numpy.empty(n): n entries of the value
Filled(n, value) == [k \in 0..(n - 1) |-> Rat(value)]

\* zeros, ones and empty: the array of the length _array_length gives, or
\* the exception the lookup raises
ArrayFactory(make, kwds, value) ==
    LET centering == PopCentering(kwds)
    IN  /\ Idle
        /\ IF centering \notin DOMAIN ARRAY_LENGTH_ATTRIBUTES
           THEN Raised(make, kwds, "BadCenteringString")
           ELSE IF ~HasAttr(ARRAY_LENGTH_ATTRIBUTES[centering])
           THEN Raised(make, kwds, "AttributeError")
           ELSE /\ last_op' = make /\ arg' = kwds /\ raised' = ""
                /\ UNCHANGED <<voronoiVars, buffer>>
                /\ ret' = Filled(GetAttr(ARRAY_LENGTH_ATTRIBUTES[centering]),
                                 value)
        /\ UNCHANGED <<built, shapeVars, node_status, cellVars,
                       activecell_node, linkVars, activeVars, nops>>

\* the keyword arguments tried: no centering, the four names, and strings
\* that are not among them
BadCenterings == {"patch", "NODE"}

KwdsTried ==
    {<<>>} \cup {[centering |-> c] :
                    c \in DOMAIN ARRAY_LENGTH_ATTRIBUTES \cup BadCenterings}

\* the values numpy.empty may leave in the array
EmptyFills == {0, 1}

\* ModelGrid.zeros(**kwds)
GridZeros(kwds) == ArrayFactory("zeros", kwds, 0)

\* ModelGrid.ones(**kwds)
GridOnes(kwds) == ArrayFactory("ones", kwds, 1)

\* ModelGrid.empty(**kwds)
GridEmpty(kwds, value) == ArrayFactory("empty", kwds, value)

NextArray ==
    \/ Next
    \/ \E kwds \in KwdsTried : GridZeros(kwds)
    \/ \E kwds \in KwdsTried : GridOnes(kwds)
    \/ \E kwds \in KwdsTried, value \in EmptyFills : GridEmpty(kwds, value)

SpecArray == Init /\ [][NextArray]_vars

\* strings, as sequences of characters
UpperCase == <<"A", "B", "C", "D", "E", "F", "G", "H", "I", "J", "K", "L", "M",
               "N", "O", "P", "Q", "R", "S", "T", "U", "V", "W", "X", "Y", "Z">>

LowerCase == <<"a", "b", "c", "d", "e", "f", "g", "h", "i", "j", "k", "l", "m",
               "n", "o", "p", "q", "r", "s", "t", "u", "v", "w", "x", "y", "z">>

\* str.lower()
Lower(str) ==
    [i \in DOMAIN str |->
        IF \E j \in DOMAIN UpperCase : UpperCase[j] = str[i]
        THEN LowerCase[CHOOSE j \in DOMAIN UpperCase : UpperCase[j] = str[i]]
        ELSE str[i]]

\* _is_closed_boundary
IsClosedBoundary(boundary_string) ==
    Lower(boundary_string) = <<"c", "l", "o", "s", "e", "d">>

\* param_dict.get(key, default)
ParamGet(param_dict, key, default) ==
    IF key \in DOMAIN param_dict THEN param_dict[key] ELSE default

\* the parameter dictionaries tried
GridTypes == {<<"r", "a", "s", "t", "e", "r">>,
              <<"R", "a", "s", "t", "e", "r">>,
              <<"h", "e", "x">>}

BoundarySettings == {<<"c", "l", "o", "s", "e", "d">>,
                     <<"C", "l", "o", "s", "e", "D">>,
                     <<"o", "p", "e", "n">>}

BoundaryKeys ==
    {"LEFT_BOUNDARY", "RIGHT_BOUNDARY", "TOP_BOUNDARY", "BOTTOM_BOUNDARY"}

DimsTried == {<<3, 3>>, <<4, 5>>, <<2, 5>>, <<0, 4>>}

MakeParamDict(grid_type, R, C, d, settings, given) ==
    [k \in {"GRID_TYPE", "NUM_ROWS", "NUM_COLS", "GRID_SPACING"} \cup given |->
        CASE k = "GRID_TYPE" -> grid_type
          [] k = "NUM_ROWS" -> R
          [] k = "NUM_COLS" -> C
          [] k = "GRID_SPACING" -> d
          [] OTHER -> settings[k]]

ParamDicts ==
    {MakeParamDict(g, rc[1], rc[2], d, e, S) :
        g \in GridTypes, rc \in DimsTried, d \in DxVals,
        e \in [BoundaryKeys -> BoundarySettings], S \in SUBSET BoundaryKeys}

\* create_and_initialize_grid(param_dict): the grid it returns (ret "mg"),
\* None for a grid type other than 'raster' (ret "None"), or the exception
\* of the constructor or of set_inactive_boundaries
CreateAndInitializeGrid(param_dict) ==
    LET grid_type == param_dict["GRID_TYPE"]
        R == param_dict["NUM_ROWS"]
        C == param_dict["NUM_COLS"]
        d == param_dict["GRID_SPACING"]
        open == <<"o", "p", "e", "n">>
        left == IsClosedBoundary(ParamGet(param_dict, "LEFT_BOUNDARY", open))
        right == IsClosedBoundary(ParamGet(param_dict, "RIGHT_BOUNDARY", open))
        top == IsClosedBoundary(ParamGet(param_dict, "TOP_BOUNDARY", open))
        bottom == IsClosedBoundary(ParamGet(param_dict, "BOTTOM_BOUNDARY", open))
        status == SetInactiveStatus(RasterNodeStatus(R, C), R, C,
                                    bottom, right, top, left)
    IN  /\ last_op = "__init__"
        /\ last_op' = "create_and_initialize_grid"
        /\ arg' = param_dict
        /\ UNCHANGED <<voronoiVars, buffer>>
        /\ IF grid_type # <<"r", "a", "s", "t", "e", "r">>
           THEN /\ ret' = "None" /\ raised' = ""
                /\ UNCHANGED <<built, shapeVars, node_status, cellVars,
                               activecell_node, linkVars, activeVars, nops>>
           ELSE IF R * C = 0
           THEN /\ ret' = EmptyArr /\ raised' = "AttributeError"
                /\ num_nodes' = 0
                /\ UNCHANGED <<built, nrows, ncols, dx, cellarea, num_cells,
                               num_active_cells, num_links, num_faces,
                               node_status, cellVars, activecell_node,
                               linkVars, activeVars, nops>>
           ELSE IF R < MinDim \/ C < MinDim
           THEN /\ ret' = EmptyArr /\ raised' = "AssertionError"
                /\ built' = FALSE
                /\ nrows' = R /\ ncols' = C /\ dx' = d /\ cellarea' = d * d
                /\ num_nodes' = NumNodes(R, C)
                /\ num_cells' = NumCells(R, C)
                /\ num_active_cells' = NumCells(R, C)
                /\ num_links' = NumLinks(R, C)
                /\ num_active_links' = ClosedFormActiveLinks(R, C)
                /\ UNCHANGED <<num_faces, node_status, cellVars,
                               activecell_node, linkVars, active_links,
                               activelink_fromnode, activelink_tonode,
                               node_numactiveinlink, node_numactiveoutlink,
                               node_active_inlink_matrix,
                               node_active_outlink_matrix, nops>>
           ELSE /\ ret' = "mg" /\ raised' = ""
                /\ built' = TRUE
                /\ nrows' = R /\ ncols' = C /\ dx' = d /\ cellarea' = d * d
                /\ num_nodes' = NumNodes(R, C)
                /\ num_cells' = NumCells(R, C)
                /\ num_active_cells' = NumCells(R, C)
                /\ num_links' = NumLinks(R, C)
                /\ num_faces' = NumFaces(R, C)
                /\ cell_node' = CellNodeIndex(R, C)
                /\ node_activecell' = NodeActiveCell(R, C)
                /\ activecell_node' = CellNodeIndex(R, C)
                /\ link_fromnode' = LinkFromNode(R, C)
                /\ link_tonode' = LinkToNode(R, C)
                /\ SetupInlinkAndOutlinkMatrices(LinkFromNode(R, C),
                                                  LinkToNode(R, C),
                                                  NumNodes(R, C), 2)
                /\ link_face' =
                       LinkFaces(NumLinks(R, C),
                                 ActiveLinks(RasterNodeStatus(R, C),
                                             LinkFromNode(R, C),
                                             LinkToNode(R, C)))
                /\ node_status' = status
                /\ ResetListOfActiveLinks(status, LinkFromNode(R, C),
                                          LinkToNode(R, C), NumNodes(R, C))
                /\ nops' = 1

NextCreate ==
    \/ Next
    \/ \E param_dict \in ParamDicts : CreateAndInitializeGrid(param_dict)

SpecCreate == Init /\ [][NextCreate]_vars

\* ------------------------------------------------------------------------
\* The operators called with an output array of the caller's
\* ------------------------------------------------------------------------
\* the end of a call that was given the output array `before`: what it
\* returned or raised, and what the caller's array holds afterwards
Outcome(op, a, r, exception, after) ==
    /\ last_op' = op /\ arg' = a /\ ret' = r /\ raised' = exception
    /\ buffer' = after
    /\ UNCHANGED <<built, shapeVars, node_status, cellVars, activecell_node,
                   linkVars, activeVars, voronoiVars, nops>>

\* the output arrays tried: of the length the operator asserts, and one
\* entry longer, holding a value left by an earlier use
StaleValue == 7

Buffers(n) == {Filled(n, StaleValue), Filled(n + 1, StaleValue)}

\* RasterModelGrid.calculate_gradients_at_active_links(s, gradient).
\* `gradient==None` is one truth value or, where numpy compares an array
\* with None entry by entry, an array whose truth value is a ValueError
\* unless it has at most one entry. The name gradient is then bound to a
\* new array: nothing is written to the caller's.
CalculateGradientsAtActiveLinksInto(s, gradient, elementwise) ==
    LET op == "calculate_gradients_at_active_links"
        a == [s |-> s, gradient |-> gradient]
    IN  /\ Callable
        /\ IF elementwise /\ ALen(gradient) > 1
           THEN Outcome(op, a, EmptyArr, "ValueError", gradient)
           ELSE IF ALen(gradient) # num_active_links
           THEN Outcome(op, a, EmptyArr, "AssertionError", gradient)
           ELSE Outcome(op, a, CalcGradients(s), "", gradient)

\* RasterModelGrid.calculate_flux_divergence_at_nodes(active_link_flux,
\* net_unit_flux): the caller's array is filled with zeros, its length is
\* asserted, and the name net_unit_flux is bound to a new array
CalculateFluxDivergenceAtNodesInto(active_link_flux, net_unit_flux) ==
    LET op == "calculate_flux_divergence_at_nodes"
        a == [active_link_flux |-> active_link_flux,
              net_unit_flux |-> net_unit_flux]
        zeroed == Filled(ALen(net_unit_flux), 0)
    IN  /\ Callable
        /\ ALen(active_link_flux) = num_active_links
        /\ IF ALen(net_unit_flux) # num_nodes
           THEN Outcome(op, a, EmptyArr, "AssertionError", zeroed)
           ELSE Outcome(op, a, FluxDivAtNodes(active_link_flux), "", zeroed)

\* RasterModelGrid.calculate_flux_divergence_at_active_cells(
\* active_link_flux, net_unit_flux): likewise, with the length asserted
\* against num_active_cells
CalculateFluxDivergenceAtActiveCellsInto(active_link_flux, net_unit_flux) ==
    LET op == "calculate_flux_divergence_at_active_cells"
        a == [active_link_flux |-> active_link_flux,
              net_unit_flux |-> net_unit_flux]
        zeroed == Filled(ALen(net_unit_flux), 0)
    IN  /\ Callable
        /\ ALen(active_link_flux) = num_active_links
        /\ IF ALen(net_unit_flux) # num_active_cells
           THEN Outcome(op, a, EmptyArr, "AssertionError", zeroed)
           ELSE Outcome(op, a, FluxDivAtActiveCells(active_link_flux), "",
                        zeroed)

NextBuffer ==
    \/ Next
    \/ \E s \in NodeFields, g \in Buffers(num_active_links), e \in BOOLEAN :
           CalculateGradientsAtActiveLinksInto(s, g, e)
    \/ \E f \in FluxArrays, b \in Buffers(num_nodes) :
           CalculateFluxDivergenceAtNodesInto(f, b)
    \/ \E f \in FluxArrays, b \in Buffers(num_active_cells) :
           CalculateFluxDivergenceAtActiveCellsInto(f, b)

SpecBuffer == Init /\ [][NextBuffer]_vars

RECURSIVE RSumFrom(_, _)
RSumFrom(a, k) ==
    IF k >= ALen(a) THEN RZero ELSE RAdd(a[k], RSumFrom(a, k + 1))

\* the sum of the entries of an array of rationals
RSum(a) == RSumFrom(a, 0)

\* ------------------------------------------------------------------------
\* VoronoiDelaunayGrid
\* ------------------------------------------------------------------------
\* the index that marks an undefined Voronoi vertex
NO_VERTEX == -1

\* What the geometry provider returns for the points of an R x C square
\* lattice of spacing 2: the Voronoi vertices are the centres of the lattice
\* squares, a ridge separates every two lattice neighbours, and the hull
\* reports the four corners as its vertices and the other perimeter points
\* as coplanar. VertexAt is the ID of the vertex in square (r, c).
VertexAt(R, C, r, c) ==
    IF r \in 0..(R - 2) /\ c \in 0..(C - 2) THEN r * (C - 1) + c ELSE NO_VERTEX

LatticePoints(R, C) ==
    [n \in 0..(R * C - 1) |-> <<Rat(2 * (n % C)), Rat(2 * (n \div C))>>]

LatticeVertices(R, C) ==
    [v \in 0..((R - 1) * (C - 1) - 1) |->
        <<Rat(2 * (v % (C - 1)) + 1), Rat(2 * (v \div (C - 1)) + 1)>>]

\* the ring of vertex IDs around point n, with NO_VERTEX if it is unbounded
LatticeRegion(R, C, n) ==
    LET r == n \div C
        c == n % C
        corners == <<VertexAt(R, C, r - 1, c - 1), VertexAt(R, C, r - 1, c),
                     VertexAt(R, C, r, c), VertexAt(R, C, r, c - 1)>>
        finite == SelectSeq(corners, LAMBDA v : v # NO_VERTEX)
    IN  ToArr(IF Len(finite) = 4 THEN corners ELSE <<NO_VERTEX>> \o finite)

LatticeRidgeVertices(R, C, from, to) ==
    LET r == from \div C
        c == from % C
    IN  IF to = from + C
        THEN ToArr(<<VertexAt(R, C, r, c - 1), VertexAt(R, C, r, c)>>)
        ELSE ToArr(<<VertexAt(R, C, r - 1, c), VertexAt(R, C, r, c)>>)

\* the provider's result; `unreported` are perimeter points that the hull
\* reports neither as vertices nor as coplanar (the special cases the
\* comment in initialize allows for)
LatticeGeometry(R, C, unreported) ==
    LET corners == {0, C - 1, (R - 1) * C, R * C - 1}
        perimeter == {n \in 0..(R * C - 1) : IsPerimeter(R, C, n)}
    IN  [points |-> LatticePoints(R, C),
         hull_vertices |-> corners,
         coplanar |-> (perimeter \ corners) \ unreported,
         vertices |-> LatticeVertices(R, C),
         point_region |-> [n \in 0..(R * C - 1) |-> n],
         regions |-> [n \in 0..(R * C - 1) |-> LatticeRegion(R, C, n)],
         ridge_points |->
             [k \in 0..(NumLinks(R, C) - 1) |->
                 ToArr(<<LinkFromNode(R, C)[k], LinkToNode(R, C)[k]>>)],
         ridge_vertices |->
             [k \in 0..(NumLinks(R, C) - 1) |->
                 LatticeRidgeVertices(R, C, LinkFromNode(R, C)[k],
                                      LinkToNode(R, C)[k])]]

\* What the provider returns for the four points (-5, 0), (0, -12), (9, 0)
\* and (0, 12) of a kite: two triangles on either side of the diagonal from
\* point 0 to point 2, with circumcentres (2, -33/8) and (2, 33/8). All four
\* points are hull vertices; only the ridge of the diagonal is bounded.
KiteGeometry ==
    [points |-> ToArr(<<<<Rat(-5), Rat(0)>>, <<Rat(0), Rat(-12)>>,
                        <<Rat(9), Rat(0)>>, <<Rat(0), Rat(12)>>>>),
     hull_vertices |-> {0, 1, 2, 3},
     coplanar |-> {},
     vertices |-> ToArr(<<<<Rat(2), <<-33, 8>>>>, <<Rat(2), <<33, 8>>>>>>),
     point_region |-> ToArr(<<0, 1, 2, 3>>),
     regions |-> ToArr(<<ToArr(<<NO_VERTEX, 0, 1>>), ToArr(<<NO_VERTEX, 0>>),
                         ToArr(<<NO_VERTEX, 1, 0>>), ToArr(<<NO_VERTEX, 1>>)>>),
     ridge_points |-> ToArr(<<ToArr(<<0, 1>>), ToArr(<<1, 2>>), ToArr(<<2, 3>>),
                              ToArr(<<3, 0>>), ToArr(<<0, 2>>)>>),
     ridge_vertices |-> ToArr(<<ToArr(<<NO_VERTEX, 0>>), ToArr(<<NO_VERTEX, 0>>),
                                ToArr(<<NO_VERTEX, 1>>), ToArr(<<NO_VERTEX, 1>>),
                                ToArr(<<0, 1>>)>>)]

Geometries ==
    {LatticeGeometry(R, C, U) :
        R \in MinDim..MaxRows, C \in MinDim..MaxCols,
        U \in SubsetsUpTo(0..(MaxRows * MaxCols - 1), MaxUnreported)}
      \cup {KiteGeometry}

\* numpy.sqrt, for the squares of rationals that the geometries give
RSqrt(a) ==
    <<CHOOSE k \in 0..a[1] : k * k = a[1], CHOOSE d \in 1..a[2] : d * d = a[2]>>

\* simple_poly_area(x, y)
SimplePolyArea(x, y) ==
    LET term(i) == RSub(RMul(PyIndex(x, i - 1), y[i]),
                        RMul(x[i], PyIndex(y, i - 1)))
        s == RSum([i \in DOMAIN x |-> term(i)])
    IN  RMul(<<Abs(s[1]), s[2]>>, <<1, 2>>)

\* VoronoiDelaunayGrid.find_perimeter_nodes: node_status
PerimeterStatus(geom) ==
    [n \in DOMAIN geom.points |->
        IF n \in geom.hull_vertices \cup geom.coplanar
        THEN FIXED_VALUE_BOUNDARY ELSE INTERIOR_NODE]

\* VoronoiDelaunayGrid.setup_node_cell_connectivity: node_cell and cell_node
NodeCell(status) ==
    [n \in DOMAIN status |->
        IF status[n] = INTERIOR_NODE
        THEN Cardinality({m \in DOMAIN status :
                             m < n /\ status[m] = INTERIOR_NODE})
        ELSE BAD_INDEX_VALUE]

CellNode(status) == Where([n \in DOMAIN status |-> status[n] = INTERIOR_NODE])

\* the area of the Voronoi region of each active cell's node
ActiveCellAreas(geom, cells) ==
    [c \in DOMAIN cells |->
        LET ring == geom.regions[geom.point_region[cells[c]]]
            xv == [i \in DOMAIN ring |-> PyIndex(geom.vertices, ring[i])[1]]
            yv == [i \in DOMAIN ring |-> PyIndex(geom.vertices, ring[i])[2]]
        IN  SimplePolyArea(xv, yv)]

\* create_links_and_faces_from_voronoi_diagram: the ridges with both
\* vertices defined, and the arrays of active links and face widths, which
\* have one slot for every ridge less one for every undefined vertex
ValidRidges(geom) ==
    Where([i \in DOMAIN geom.ridge_vertices |->
              /\ geom.ridge_vertices[i][0] > -1
              /\ geom.ridge_vertices[i][1] > -1])

RidgeActiveCount(geom) ==
    ALen(geom.ridge_points)
      - Cardinality({<<i, e>> \in (DOMAIN geom.ridge_vertices) \X {0, 1} :
                        geom.ridge_vertices[i][e] = -1})

RidgeActiveLinks(geom) ==
    [j \in 0..(RidgeActiveCount(geom) - 1) |->
        IF j < ALen(ValidRidges(geom)) THEN ValidRidges(geom)[j] ELSE -1]

RidgeFaceWidth(geom) ==
    [j \in 0..(RidgeActiveCount(geom) - 1) |->
        IF j < ALen(ValidRidges(geom))
        THEN LET rv == geom.ridge_vertices[ValidRidges(geom)[j]]
                 ddx == RSub(geom.vertices[rv[1]][1], geom.vertices[rv[0]][1])
                 ddy == RSub(geom.vertices[rv[1]][2], geom.vertices[rv[0]][2])
             IN  RSqrt(RAdd(RMul(ddx, ddx), RMul(ddy, ddy)))
        ELSE Rat(-1)]

\* ModelGrid.calculate_link_lengths
LinkLengths(pts, lfrom, lto) ==
    [l \in DOMAIN lfrom |->
        LET ddx == RSub(pts[lto[l]][1], pts[lfrom[l]][1])
            ddy == RSub(pts[lto[l]][2], pts[lfrom[l]][2])
        IN  RSqrt(RAdd(RMul(ddx, ddx), RMul(ddy, ddy)))]

\* ModelGrid.calculate_numbers_of_node_neighbors, and the largest of them
MaxNumNbrs(lfrom, lto, n) ==
    LET num_nbrs == [v \in 0..(n - 1) |->
                        Cardinality({l \in DOMAIN lfrom : lfrom[l] = v})
                          + Cardinality({l \in DOMAIN lto : lto[l] = v})]
    IN  CHOOSE m \in {num_nbrs[v] : v \in DOMAIN num_nbrs} :
            \A v \in DOMAIN num_nbrs : num_nbrs[v] <= m

\* ModelGrid.reset_list_of_active_links on a VoronoiDelaunayGrid
BaseResetListOfActiveLinks(status, lfrom, lto, n) ==
    LET al == ActiveLinks(status, lfrom, lto)
        af == Take(lfrom, al)
        at == Take(lto, al)
        inocc == Occurrences(at, n)
        outocc == Occurrences(af, n)
        rows == MaxNumNbrs(lfrom, lto, n)
    IN  /\ active_links' = al
        /\ num_active_links' = ALen(al)
        /\ activelink_fromnode' = af
        /\ activelink_tonode' = at
        /\ node_numactiveinlink' = BinCount(inocc)
        /\ node_active_inlink_matrix' = LinkMatrixRows(inocc, rows)
        /\ node_numactiveoutlink' = BinCount(outocc)
        /\ node_active_outlink_matrix' = LinkMatrixRows(outocc, rows)

\* VoronoiDelaunayGrid().initialize(x, y), with geom what the geometry
\* provider returns for the points. It sets num_activecells, not
\* num_active_cells, and none of the raster size fields.
VoronoiInitialize(geom) ==
    LET status == PerimeterStatus(geom)
        lfrom == [k \in DOMAIN geom.ridge_points |-> geom.ridge_points[k][0]]
        lto == [k \in DOMAIN geom.ridge_points |-> geom.ridge_points[k][1]]
    IN  /\ last_op = "__init__"
        /\ built' = TRUE
        /\ num_nodes' = ALen(geom.points)
        /\ node_status' = status
        /\ num_cells' = ALen(CellNode(status))
        /\ cell_node' = CellNode(status)
        /\ node_activecell' = NodeCell(status)
        /\ activecell_node' = CellNode(status)
        /\ active_cell_areas' = ActiveCellAreas(geom, CellNode(status))
        /\ link_fromnode' = lfrom
        /\ link_tonode' = lto
        /\ face_width' = RidgeFaceWidth(geom)
        /\ num_links' = ALen(lfrom)
        /\ link_length' = LinkLengths(geom.points, lfrom, lto)
        /\ BaseResetListOfActiveLinks(status, lfrom, lto, ALen(geom.points))
        /\ SetupInlinkAndOutlinkMatrices(lfrom, lto, ALen(geom.points),
               MaxNumNbrs(lfrom, lto, ALen(geom.points)))
        /\ link_face' = LinkFaces(ALen(lfrom), active_links')
        /\ last_op' = "VoronoiDelaunayGrid.initialize"
        /\ arg' = geom /\ ret' = EmptyArr /\ raised' = ""
        /\ UNCHANGED <<nrows, ncols, dx, cellarea, num_active_cells,
                       num_faces, nops, buffer>>

\* the grid is a VoronoiDelaunayGrid: it has the arrays only that class sets
IsVoronoi == built /\ nrows = 0

\* ModelGrid.set_fixed_value_boundaries(node_ids) on a VoronoiDelaunayGrid
VoronoiSetFixedValueBoundaries(node_ids) ==
    /\ IsVoronoi /\ Idle /\ nops < MaxOps
    /\ node_status' = Assign(node_status, node_ids, FIXED_VALUE_BOUNDARY)
    /\ BaseResetListOfActiveLinks(node_status', link_fromnode, link_tonode,
                                  num_nodes)
    /\ nops' = nops + 1
    /\ last_op' = "set_fixed_value_boundaries"
    /\ arg' = EmptyArr /\ ret' = EmptyArr /\ raised' = ""
    /\ UNCHANGED <<built, shapeVars, cellVars, activecell_node, linkVars,
                   voronoiVars, buffer>>

\* ModelGrid.calculate_flux_divergence_at_active_cells(active_link_flux) on
\* a VoronoiDelaunayGrid: after the length of the flux array is asserted,
\* numpy.zeros(self.num_active_cells) reads an attribute that
\* VoronoiDelaunayGrid.initialize has not set
BaseCalculateFluxDivergenceAtActiveCells(active_link_flux) ==
    /\ IsVoronoi /\ Idle
    /\ IF ALen(active_link_flux) # num_active_links
       THEN raised' = "AssertionError"
       ELSE raised' = "AttributeError"
    /\ last_op' = "calculate_flux_divergence_at_active_cells"
    /\ arg' = active_link_flux /\ ret' = EmptyArr
    /\ UNCHANGED <<built, shapeVars, node_status, cellVars, activecell_node,
                   linkVars, activeVars, voronoiVars, nops, buffer>>

\* the flux arrays tried on a VoronoiDelaunayGrid: of the right length, and
\* one entry too long
VoronoiFluxArrays ==
    {[k \in 0..(n - 1) |-> Rat(((c[1] * k * k + c[2] * k) % 7) - 3)] :
        c \in FieldCoeffs, n \in {num_active_links, num_active_links + 1}}

NextVoronoi ==
    \/ \E geom \in Geometries : VoronoiInitialize(geom)
    \/ \E node_ids \in SubsetsUpTo(Nodes, MaxIds) :
           VoronoiSetFixedValueBoundaries(node_ids)
    \/ \E f \in VoronoiFluxArrays : BaseCalculateFluxDivergenceAtActiveCells(f)

\* a VoronoiDelaunayGrid object: Init is the grid VoronoiDelaunayGrid()
\* returns, which has no field set
SpecVoronoi == Init /\ [][NextVoronoi]_vars

\* ------------------------------------------------------------------------
\* HexModelGrid.make_hex_points
\* ------------------------------------------------------------------------
MaxHexRows == 8
MaxHexCols == 7

\* a closed form without the extra columns of the middle rows
HexNpts_BaseOnly(num_rows, base_num_cols) == num_rows * base_num_cols

\* npts, the number of rows the array pts is made with
HexNpts(num_rows, base_num_cols) ==
    IF num_rows % 2 = 0
    THEN num_rows * base_num_cols + (num_rows * num_rows) \div 4
    ELSE num_rows * base_num_cols
           + ((num_rows - 1) \div 2) * ((num_rows - 1) \div 2)

\* the loop over c in range(base_num_cols + extra_cols) of row r, from
\* column c on: st holds pts, the index i and the exception raised, if any.
\* A point is <<x, y>> with y in units of sqrt(3), which dxv is a multiple
\* of. Writing past the end of pts is an IndexError.
RECURSIVE HexColLoop(_, _, _, _, _, _)
HexColLoop(st, r, c, ncols_r, dxh, xshift) ==
    IF c >= ncols_r \/ st.raised # "" THEN st
    ELSE IF st.i >= ALen(st.pts)
    THEN [st EXCEPT !.raised = "IndexError"]
    ELSE HexColLoop(
             [st EXCEPT !.pts[st.i] = <<RAdd(RMul(Rat(c), dxh), xshift),
                                        RMul(Rat(r), RMul(dxh, <<1, 2>>))>>,
                        !.i = st.i + 1],
             r, c + 1, ncols_r, dxh, xshift)

\* the loop over r in range(num_rows), from row r on
RECURSIVE HexRowLoop(_, _, _, _, _, _)
HexRowLoop(st, r, num_rows, base_num_cols, dxh, extra_cols) ==
    IF r >= num_rows \/ st.raised # "" THEN st
    ELSE LET middle_row == num_rows \div 2
             half_dxh == RMul(dxh, <<1, 2>>)
             xshift == RNeg(RMul(half_dxh, Rat(extra_cols)))
             row == HexColLoop(st, r, 0, base_num_cols + extra_cols, dxh,
                               xshift)
             next_extra == IF r < middle_row THEN extra_cols + 1
                                             ELSE extra_cols - 1
         IN  HexRowLoop(row, r + 1, num_rows, base_num_cols, dxh, next_extra)

\* make_hex_points(num_rows, base_num_cols, dxh): pts and npts, with the
\* final value of the index i
MakeHexPoints(num_rows, base_num_cols, dxh) ==
    LET npts == HexNpts(num_rows, base_num_cols)
        zeros == [k \in 0..(npts - 1) |-> <<RZero, RZero>>]
        st == HexRowLoop([pts |-> zeros, i |-> 0, raised |-> ""],
                         0, num_rows, base_num_cols, dxh, 0)
    IN  [pts |-> st.pts, npts |-> npts, i |-> st.i, raised |-> st.raised]

\* the spacings tried: 1.0 and 0.5
HexSpacings == {Rat(1), <<1, 2>>}

\* HexModelGrid().make_hex_points(num_rows, base_num_cols, dxh)
CallMakeHexPoints(num_rows, base_num_cols, dxh) ==
    LET r == MakeHexPoints(num_rows, base_num_cols, dxh)
    IN  /\ last_op = "__init__"
        /\ last_op' = "make_hex_points"
        /\ arg' = <<num_rows, base_num_cols, dxh>>
        /\ ret' = r
        /\ raised' = r.raised
        /\ UNCHANGED <<built, shapeVars, node_status, cellVars,
                       activecell_node, linkVars, activeVars, voronoiVars,
                       nops, buffer>>

NextHex ==
    \E num_rows \in 0..MaxHexRows, base_num_cols \in 0..MaxHexCols,
       dxh \in HexSpacings : CallMakeHexPoints(num_rows, base_num_cols, dxh)

\* a HexModelGrid() object, on which make_hex_points is called
SpecHex == Init /\ [][NextHex]_vars

\* ------------------------------------------------------------------------
\* VoronoiDelaunayGrid.create_links_from_triangulation
\* ------------------------------------------------------------------------
MaxTriRows == 3
MaxTriCols == 4

\* the two triangles of the lattice square whose lower left node is a, in a
\* lattice of C columns, cut by one diagonal or the other
SquareTriangles(a, C, rising) ==
    IF rising THEN <<<<a, a + 1, a + C + 1>>, <<a, a + C + 1, a + C>>>>
              ELSE <<<<a, a + 1, a + C>>, <<a + 1, a + C + 1, a + C>>>>

RECURSIVE LatticeTriangles(_, _, _, _)
LatticeTriangles(R, C, sq, diag) ==
    IF sq >= (R - 1) * (C - 1) THEN <<>>
    ELSE SquareTriangles((sq \div (C - 1)) * C + (sq % (C - 1)), C, diag[sq])
           \o LatticeTriangles(R, C, sq + 1, diag)

\* tri.neighbors for the triangles in simplices: entry i of row t is the
\* triangle that shares the edge opposite vertex i of t, or -1
NeighborsOf(simplices) ==
    [t \in DOMAIN simplices |->
        [i \in 0..2 |->
            LET edge == {simplices[t][(i + 1) % 3], simplices[t][(i + 2) % 3]}
                others == {u \in DOMAIN simplices :
                              /\ u # t
                              /\ edge \subseteq {simplices[u][k] : k \in 0..2}}
            IN  IF others = {} THEN -1 ELSE CHOOSE u \in others : TRUE]]

\* a triangulation object: the triangles of an R x C lattice with the
\* diagonals diag, each triangle listed from its vertex number `first`, the
\* list in the order given or reversed
Triangulation(R, C, diag, first, reversed) ==
    LET ts == LatticeTriangles(R, C, 0, diag)
        T == Len(ts)
        simplices == [t \in 0..(T - 1) |->
                         LET tr == ts[IF reversed THEN T - t ELSE t + 1]
                         IN  [k \in 0..2 |-> tr[((k + first) % 3) + 1]]]
    IN  [nsimplex |-> T, simplices |-> simplices,
         neighbors |-> NeighborsOf(simplices)]

Triangulations ==
    {Triangulation(R, C, diag, first, reversed) :
        <<R, C>> \in {rc \in (2..MaxTriRows) \X (2..MaxTriCols) :
                         (rc[1] - 1) * (rc[2] - 1) <= 4},
        diag \in [0..3 -> BOOLEAN], first \in 0..2, reversed \in BOOLEAN}

\* an edge test that never skips
AddsEdge_Always(neighbor, tridone) == TRUE

\* the test of the sweep: the edge is added if no triangle lies across it or
\* that triangle is not done yet
AddsEdge(neighbor, tridone) == neighbor = -1 \/ ~tridone[neighbor]

\* the sweep over the triangles t and their vertices i, from step
\* j = 3 * t + i on; tridone[t] is set after the three vertices of t.
\* Writing past the end of the link arrays is an IndexError.
RECURSIVE TriSweep(_, _, _)
TriSweep(tri, j, st) ==
    IF j >= 3 * tri.nsimplex \/ st.raised # "" THEN st
    ELSE LET t == j \div 3
             i == j % 3
             done == IF i = 2 THEN [st.tridone EXCEPT ![t] = TRUE]
                              ELSE st.tridone
         IN  IF ~AddsEdge(tri.neighbors[t][i], st.tridone)
             THEN TriSweep(tri, j + 1, [st EXCEPT !.tridone = done])
             ELSE IF st.link_id >= ALen(st.link_fromnode)
             THEN [st EXCEPT !.raised = "IndexError"]
             ELSE TriSweep(tri, j + 1,
                      [st EXCEPT
                          !.link_fromnode[st.link_id] =
                              tri.simplices[t][(i + 1) % 3],
                          !.link_tonode[st.link_id] =
                              tri.simplices[t][(i + 2) % 3],
                          !.link_id = st.link_id + 1,
                          !.tridone = done])

\* create_links_from_triangulation(tri): link_fromnode, link_tonode and
\* num_links, with the final value of link_id
CreateLinksFromTriangulation(tri) ==
    LET num_shared_links ==
            Cardinality({<<t, i>> \in (0..(tri.nsimplex - 1)) \X (0..2) :
                            tri.neighbors[t][i] > -1})
        nlinks == 3 * tri.nsimplex - num_shared_links \div 2
        zeros == [l \in 0..(nlinks - 1) |-> 0]
        st == TriSweep(tri, 0,
                  [link_fromnode |-> zeros, link_tonode |-> zeros,
                   link_id |-> 0, raised |-> "",
                   tridone |-> [t \in 0..(tri.nsimplex - 1) |-> FALSE]])
    IN  [link_fromnode |-> st.link_fromnode, link_tonode |-> st.link_tonode,
         num_links |-> nlinks, link_id |-> st.link_id,
         raised |-> st.raised]

\* VoronoiDelaunayGrid().create_links_from_triangulation(tri)
CallCreateLinksFromTriangulation(tri) ==
    LET r == CreateLinksFromTriangulation(tri)
    IN  /\ last_op = "__init__"
        /\ last_op' = "create_links_from_triangulation"
        /\ arg' = tri
        /\ ret' = r
        /\ raised' = r.raised
        /\ UNCHANGED <<built, shapeVars, node_status, cellVars,
                       activecell_node, linkVars, activeVars, voronoiVars,
                       nops, buffer>>

NextTri == \E tri \in Triangulations : CallCreateLinksFromTriangulation(tri)

\* a VoronoiDelaunayGrid() object, on which the method is called
SpecTri == Init /\ [][NextTri]_vars

\* ------------------------------------------------------------------------
\* Properties
\* ------------------------------------------------------------------------
IsAscending(a) ==
    \A j, k \in DOMAIN a : j < k => a[j] < a[k]

Elems(a) == {a[k] : k \in DOMAIN a}

\* the links the activation rule selects under the current node_status
RuleLinks ==
    {l \in Links :
        \/ (node_status[link_fromnode[l]] = INTERIOR_NODE
            /\ node_status[link_tonode[l]] # INACTIVE_BOUNDARY)
        \/ (node_status[link_tonode[l]] = INTERIOR_NODE
            /\ node_status[link_fromnode[l]] # INACTIVE_BOUNDARY)}

\* C1: after the build and after every boundary operation, active_links is
\* the ascending list of exactly the links the activation rule selects under
\* the current node_status, and num_active_links, activelink_fromnode and
\* activelink_tonode agree with that list.
C1_ActiveLinksFollowRule ==
    built =>
        /\ DOMAIN active_links = 0..(num_active_links - 1)
        /\ Elems(active_links) = RuleLinks
        /\ IsAscending(active_links)
        /\ num_active_links = Cardinality(RuleLinks)
        /\ DOMAIN activelink_fromnode = DOMAIN active_links
        /\ DOMAIN activelink_tonode = DOMAIN active_links
        /\ \A k \in DOMAIN active_links :
               /\ activelink_fromnode[k] = link_fromnode[active_links[k]]
               /\ activelink_tonode[k] = link_tonode[active_links[k]]

\* a grid on which a cell node was made a fixed-value boundary and a node was
\* deactivated, and which still has active and inactive links
C1_Witness ==
    /\ built /\ nops >= 2
    /\ \E n \in Nodes : node_status[n] = INACTIVE_BOUNDARY
    /\ \E n \in Nodes : node_activecell[n] # BAD_INDEX_VALUE
                        /\ node_status[n] = FIXED_VALUE_BOUNDARY
    /\ num_active_links > 0
    /\ \E l \in Links : l \notin Elems(active_links)
                        /\ node_status[link_fromnode[l]] = INTERIOR_NODE

\* C2: a raster grid of R >= 3 rows and C >= 3 columns, as built, has R*C
\* nodes, (R-2)*(C-2) cells, C*(R-1) + R*(C-1) links, and the active links
\* derived by the activation rule number num_links - 2*(C-1) - 2*(R-1);
\* 4 rows and 5 columns give 20, 6, 31 and 17.
C2_DefaultCounts ==
    (built /\ nops = 0) =>
        /\ nrows >= 3 /\ ncols >= 3
        /\ num_nodes = nrows * ncols
        /\ ALen(node_status) = nrows * ncols
        /\ num_cells = (nrows - 2) * (ncols - 2)
        /\ ALen(cell_node) = (nrows - 2) * (ncols - 2)
        /\ num_links = ncols * (nrows - 1) + nrows * (ncols - 1)
        /\ ALen(link_fromnode) = num_links
        /\ ALen(link_tonode) = num_links
        /\ num_active_links = num_links - 2 * (ncols - 1) - 2 * (nrows - 1)
        /\ ALen(active_links) = num_links - 2 * (ncols - 1) - 2 * (nrows - 1)
        /\ Cardinality(RuleLinks) = num_links - 2 * (ncols - 1) - 2 * (nrows - 1)
        /\ num_active_links = ClosedFormActiveLinks(nrows, ncols)
        /\ (nrows = 4 /\ ncols = 5) =>
               <<num_nodes, num_cells, num_links, num_active_links>>
                   = <<20, 6, 31, 17>>

\* the 4 x 5 grid as built
C2_Witness ==
    /\ built /\ nops = 0 /\ last_op = "initialize"
    /\ nrows = 4 /\ ncols = 5
    /\ num_active_links = 17

\* C3: for every reachable raster grid state and every flux array of length
\* num_active_links, the gather-based calculate_flux_divergence_at_active_cells
\* returns the same array as the loop-based
\* calculate_flux_divergence_at_active_cells_slow.
C3_GatherEqualsLoop ==
    last_op = "calculate_flux_divergence_at_active_cells" =>
        ret = FluxDivAtActiveCellsSlow(arg)

IsInterior(n) == node_status[n] = INTERIOR_NODE

\* the flux that leaves the interior nodes along active link k, times the
\* face width: counted for a link that joins an interior node to a node
\* that is not interior, with the sign that points away from the interior one
OutwardFlux(flux, k) ==
    LET f == activelink_fromnode[k]
        t == activelink_tonode[k]
    IN  IF IsInterior(f) /\ ~IsInterior(t) THEN RMul(flux[k], Rat(dx))
        ELSE IF IsInterior(t) /\ ~IsInterior(f) THEN RNeg(RMul(flux[k], Rat(dx)))
        ELSE RZero

NetBoundaryFlux(flux) == RSum([k \in DOMAIN flux |-> OutwardFlux(flux, k)])

AllEdgesInactive ==
    \A n \in Nodes :
        IsPerimeter(nrows, ncols, n) => node_status[n] = INACTIVE_BOUNDARY

\* the widths and areas a raster grid has for the base-class loop: every
\* face is dx wide and every cell has the area cellarea
RasterFaceWidth == [f \in 0..(num_faces - 1) |-> Rat(dx)]

RasterCellAreas == [c \in 0..(num_active_cells - 1) |-> Rat(cellarea)]

RasterLinkLength == [l \in Links |-> Rat(dx)]

HasCell(n) == node_activecell[n] # BAD_INDEX_VALUE

\* the flux times dx summed over the active links that leave node n, less
\* the same sum over the active links that enter it
NodeNetFlux(flux, n) ==
    RSum([k \in DOMAIN flux |->
            IF activelink_fromnode[k] = n THEN RMul(flux[k], Rat(dx))
            ELSE IF activelink_tonode[k] = n THEN RNeg(RMul(flux[k], Rat(dx)))
            ELSE RZero])

C6_Conservation ==
    (/\ last_op = "calculate_flux_divergence_at_active_cells"
     /\ \E u \in NodeFields : arg = NegArr(CalcGradientsSlow(u))) =>
        /\ RSum([c \in DOMAIN ret |-> RMul(ret[c], Rat(cellarea))])
               = NetBoundaryFlux(arg)
        /\ AllEdgesInactive =>
               RSum([c \in DOMAIN ret |-> RMul(ret[c], Rat(cellarea))]) = RZero

\* C7: from every grid state and for every (node_data, nodata_value),
\* deactivate_nodata_nodes applied twice gives the node_status it gives
\* applied once, in which every node whose data equals nodata_value is
\* INACTIVE and every other node has the status it had; and after a call, a
\* second call with the same arguments would leave node_status,
\* activecell_node and the active-link list as they are.
C7_DeactivateIdempotent ==
    built =>
        /\ \A d \in NodeDataArrays, v \in NodataVals :
               LET once == DeactivateStatus(node_status, d, v)
                   twice == DeactivateStatus(once, d, v)
               IN  /\ twice = once
                   /\ \A n \in Nodes :
                          /\ d[n] = v => once[n] = INACTIVE_BOUNDARY
                          /\ d[n] # v => once[n] = node_status[n]
        /\ last_op = "deactivate_nodata_nodes" =>
               LET again == DeactivateStatus(node_status, arg.node_data,
                                             arg.nodata_value)
               IN  /\ again = node_status
                   /\ InteriorNodes(again) = activecell_node
                   /\ ActiveLinks(again, link_fromnode, link_tonode)
                          = active_links
                   /\ \A n \in Nodes :
                          arg.node_data[n] = arg.nodata_value =>
                              node_status[n] = INACTIVE_BOUNDARY

\* a call, the second operation on the grid, that marked a cell node as
\* no-data and left it the only inactive node
C7_Witness ==
    /\ last_op = "deactivate_nodata_nodes" /\ nops = 2
    /\ \E n \in Nodes : /\ HasCell(n)
                        /\ arg.node_data[n] = NODATA
                        /\ arg.nodata_value = NODATA
                        /\ node_status[n] = INACTIVE_BOUNDARY
    /\ Cardinality({n \in Nodes : node_status[n] = INACTIVE_BOUNDARY}) = 1

NodeRow(n) == n \div ncols

NodeCol(n) == n % ncols

\* the perimeter nodes by edge, each corner with the edge it is documented
\* to belong to
BottomNodes == {n \in Nodes : NodeRow(n) = 0 /\ NodeCol(n) < ncols - 1}

RightNodes == {n \in Nodes : NodeCol(n) = ncols - 1 /\ NodeRow(n) < nrows - 1}

TopNodes == {n \in Nodes : NodeRow(n) = nrows - 1 /\ NodeCol(n) > 0}

LeftNodes == {n \in Nodes : NodeCol(n) = 0 /\ NodeRow(n) > 0}

PerimeterNodes ==
    {n \in Nodes : \/ NodeRow(n) = 0 \/ NodeRow(n) = nrows - 1
                   \/ NodeCol(n) = 0 \/ NodeCol(n) = ncols - 1}

StatusFor(is_inactive) ==
    IF is_inactive THEN INACTIVE_BOUNDARY ELSE FIXED_VALUE_BOUNDARY

\* C8: set_inactive_boundaries(bottom, right, top, left) gives every
\* perimeter node the code of exactly one edge (bottom-left corner with
\* bottom, bottom-right with right, top-right with top, top-left with left):
\* INACTIVE if that edge's flag is true, FIXED_VALUE otherwise, whatever the
\* node's status was; every other node keeps its status.
C8_EdgesAssigned ==
    [][last_op' = "set_inactive_boundaries" =>
        /\ BottomNodes \cup RightNodes \cup TopNodes \cup LeftNodes
               = PerimeterNodes
        /\ Cardinality(BottomNodes) + Cardinality(RightNodes)
             + Cardinality(TopNodes) + Cardinality(LeftNodes)
               = Cardinality(PerimeterNodes)
        /\ \A n \in BottomNodes : node_status'[n] = StatusFor(arg'.bottom)
        /\ \A n \in RightNodes : node_status'[n] = StatusFor(arg'.right)
        /\ \A n \in TopNodes : node_status'[n] = StatusFor(arg'.top)
        /\ \A n \in LeftNodes : node_status'[n] = StatusFor(arg'.left)
        /\ \A n \in Nodes \ PerimeterNodes : node_status'[n] = node_status[n]
      ]_vars

\* a call with bottom and top inactive and right and left not, on a grid
\* where a cell node had been deactivated before
C8_Witness ==
    /\ last_op = "set_inactive_boundaries" /\ nops = 2
    /\ arg.bottom /\ ~arg.right /\ arg.top /\ ~arg.left
    /\ node_status[0] = INACTIVE_BOUNDARY
    /\ node_status[ncols - 1] = FIXED_VALUE_BOUNDARY
    /\ node_status[num_nodes - 1] = INACTIVE_BOUNDARY
    /\ node_status[num_nodes - ncols] = FIXED_VALUE_BOUNDARY
    /\ \E n \in Nodes \ PerimeterNodes : node_status[n] = INACTIVE_BOUNDARY

\* C9: on a grid as built, after set_inactive_boundaries(True, True, True,
\* True) the active links are exactly the links whose two ends are both
\* non-perimeter nodes, fewer than the count as built (17 on the 4 x 5
\* grid); with only top and left inactive the 4 x 5 grid has 12.
C9_InactiveEdgesCutLinks ==
    (built /\ nops = 1 /\ last_op = "set_inactive_boundaries") =>
        /\ (arg.bottom /\ arg.right /\ arg.top /\ arg.left) =>
               /\ Elems(active_links) =
                      {l \in Links : /\ link_fromnode[l] \notin PerimeterNodes
                                     /\ link_tonode[l] \notin PerimeterNodes}
               /\ num_active_links = Cardinality(Elems(active_links))
               /\ num_active_links
                      < num_links - 2 * (ncols - 1) - 2 * (nrows - 1)
               /\ (nrows = 4 /\ ncols = 5) =>
                      num_links - 2 * (ncols - 1) - 2 * (nrows - 1) = 17
        /\ (~arg.bottom /\ ~arg.right /\ arg.top /\ arg.left
            /\ nrows = 4 /\ ncols = 5) => num_active_links = 12

\* the 4 x 5 grid with all four edges inactive: the 7 links among the six
\* cell nodes are left
C9_Witness ==
    /\ built /\ nops = 1 /\ last_op = "set_inactive_boundaries"
    /\ arg.bottom /\ arg.right /\ arg.top /\ arg.left
    /\ nrows = 4 /\ ncols = 5
    /\ num_active_links = 7

\* C10: after the build and after every sequence of boundary operations,
\* activecell_node lists exactly the nodes whose status is INTERIOR, in
\* ascending order.
C10_ActiveCellsAreInterior ==
    built =>
        /\ Elems(activecell_node) = {n \in Nodes : node_status[n] = INTERIOR_NODE}
        /\ IsAscending(activecell_node)
        /\ ALen(activecell_node)
               = Cardinality({n \in Nodes : node_status[n] = INTERIOR_NODE})

\* C11: in every reachable state, node_activecell and activecell_node are
\* inverse to each other on the INTERIOR nodes, the INTERIOR nodes have the
\* cell IDs 0, 1, ... in ascending node order, and node_activecell is
\* BAD_INDEX_VALUE at every node that is not INTERIOR.
C11_NodeCellBijection ==
    built =>
        /\ \A n \in Nodes :
               node_status[n] = INTERIOR_NODE =>
                   /\ node_activecell[n] \in DOMAIN activecell_node
                   /\ activecell_node[node_activecell[n]] = n
                   /\ node_activecell[n] =
                          Cardinality({m \in Nodes :
                              m < n /\ node_status[m] = INTERIOR_NODE})
        /\ \A c \in DOMAIN activecell_node :
               /\ node_status[activecell_node[c]] = INTERIOR_NODE
               /\ node_activecell[activecell_node[c]] = c
        /\ \A n \in Nodes :
               node_status[n] # INTERIOR_NODE =>
                   node_activecell[n] = BAD_INDEX_VALUE

GivenCentering(c) == "centering" \in DOMAIN arg /\ arg.centering = c

\* C12: in every state of a built grid, also after boundary operations,
\* zeros, ones and empty return an array of num_nodes entries for centering
\* 'node', of as many entries as there are active cells (the length of
\* activecell_node and of the array
\* calculate_flux_divergence_at_active_cells returns) for 'cell', of as many
\* as there are active links for 'link', and of the number of faces for
\* 'face'.
C12_FactorySizes ==
    (built /\ last_op \in Factories) =>
        /\ GivenCentering("node") =>
               raised = "" /\ ALen(ret) = ALen(node_status)
        /\ GivenCentering("cell") =>
               /\ raised = ""
               /\ ALen(ret) = ALen(activecell_node)
               /\ \A f \in FluxArrays :
                      ALen(ret) = ALen(FluxDivAtActiveCells(f))
        /\ GivenCentering("link") =>
               raised = "" /\ ALen(ret) = ALen(active_links)
        /\ GivenCentering("face") =>
               /\ raised = ""
               /\ ALen(ret) = (nrows - 1) * (ncols - 2)
                                 + (nrows - 2) * (ncols - 1)

\* C13: zeros, ones and empty called with a centering other than 'node',
\* 'cell', 'link' and 'face' raise BadCenteringString and return no array;
\* called with no centering they return an array of num_nodes entries.
C13_BadCentering ==
    last_op \in Factories =>
        /\ ("centering" \in DOMAIN arg
            /\ arg.centering \notin {"node", "cell", "link", "face"}) =>
               raised = "BadCenteringString" /\ ret = EmptyArr
        /\ "centering" \notin DOMAIN arg =>
               raised = "" /\ DOMAIN ret = 0..(num_nodes - 1)

\* a call with the centering 'patch' on a built grid, which raised
C13_Witness ==
    /\ built /\ nops >= 1
    /\ last_op = "ones"
    /\ GivenCentering("patch")
    /\ raised = "BadCenteringString"

\* C14, as stated: RasterModelGrid(R, C, dx) raises for every R, C >= 0 with
\* R < 3 or C < 3, and gives no usable grid.
C14_AlwaysRaises ==
    (last_op = "RasterModelGrid" /\ (arg[1] < 3 \/ arg[2] < 3)) =>
        raised # "" /\ ~built

\* C14, amended: RasterModelGrid(R, C, dx) raises AssertionError for every
\* R, C >= 1 with R < 3 or C < 3; with R = 0 or C = 0 it does not call
\* initialize and returns, without an error, a grid that is not set up and
\* has num_nodes = 0. initialize(R, C, dx) raises AssertionError for every
\* R, C >= 0 with R < 3 or C < 3. In none of these cases is the grid set up,
\* and with R >= 3 and C >= 3 both set it up without an error.
C14_SmallGridsRejected ==
    last_op \in {"RasterModelGrid", "initialize"} =>
        LET R == arg[1]
            C == arg[2]
        IN  /\ (R < 3 \/ C < 3) =>
                   /\ ~built
                   /\ (last_op = "initialize" \/ R * C > 0) =>
                          raised = "AssertionError"
                   /\ (last_op = "RasterModelGrid" /\ R * C = 0) =>
                          raised = "" /\ num_nodes = 0
            /\ (R >= 3 /\ C >= 3) =>
                   built /\ raised = "" /\ num_nodes = R * C

\* the constructor called with 2 rows and 5 columns, which raised
C14_Witness ==
    /\ last_op = "RasterModelGrid"
    /\ arg[1] = 2 /\ arg[2] = 5
    /\ raised = "AssertionError" /\ ~built

\* C15: when initialize(R, C, dx) fails its dimension check, nrows, ncols,
\* dx, num_nodes, num_cells, num_links and num_active_links are what they
\* were before the call.
C15_NoPartialMutation ==
    [][(last_op' = "initialize" /\ raised' = "AssertionError") =>
          UNCHANGED <<nrows, ncols, dx, num_nodes, num_cells, num_links,
                      num_active_links>>]_vars

\* C16: create_and_initialize_grid fails with an error when GRID_TYPE is not
\* a known grid type; for GRID_TYPE 'raster' it builds the raster grid and
\* makes each of the four edges INACTIVE exactly when that edge's setting,
\* open if not given, is 'closed' in any spelling of upper and lower case.
C16_CreateGrid ==
    last_op = "create_and_initialize_grid" =>
        LET closed(key) ==
                /\ key \in DOMAIN arg
                /\ arg[key] \in {<<"c", "l", "o", "s", "e", "d">>,
                                 <<"C", "l", "o", "s", "e", "D">>}
            R == arg["NUM_ROWS"]
            C == arg["NUM_COLS"]
        IN  /\ arg["GRID_TYPE"] # <<"r", "a", "s", "t", "e", "r">> =>
                   raised # ""
            /\ (arg["GRID_TYPE"] = <<"r", "a", "s", "t", "e", "r">>
                /\ R >= 3 /\ C >= 3) =>
                   /\ built /\ raised = ""
                   /\ nrows = R /\ ncols = C /\ num_nodes = R * C
                   /\ \A n \in BottomNodes :
                          (node_status[n] = INACTIVE_BOUNDARY)
                              <=> closed("BOTTOM_BOUNDARY")
                   /\ \A n \in RightNodes :
                          (node_status[n] = INACTIVE_BOUNDARY)
                              <=> closed("RIGHT_BOUNDARY")
                   /\ \A n \in TopNodes :
                          (node_status[n] = INACTIVE_BOUNDARY)
                              <=> closed("TOP_BOUNDARY")
                   /\ \A n \in LeftNodes :
                          (node_status[n] = INACTIVE_BOUNDARY)
                              <=> closed("LEFT_BOUNDARY")

\* C17: the flux-divergence operators are available on every grid family:
\* after VoronoiDelaunayGrid.initialize,
\* calculate_flux_divergence_at_active_cells accepts every flux array of
\* length num_active_links and returns one value for every active cell.
C17_FluxDivergenceOnVoronoi ==
    (/\ IsVoronoi
     /\ last_op = "calculate_flux_divergence_at_active_cells"
     /\ ALen(arg) = num_active_links) =>
        raised = "" /\ ALen(ret) = ALen(activecell_node)

\* node n is interior and the ring of its Voronoi region, in the geometry
\* geom, holds the index of an undefined vertex
UnboundedInterior(geom, n) ==
    /\ node_status[n] = INTERIOR_NODE
    /\ \E i \in DOMAIN geom.regions[geom.point_region[n]] :
           geom.regions[geom.point_region[n]][i] = NO_VERTEX

C18_BufferHoldsResult ==
    (last_op \in Operators /\ raised = "") => buffer = ret

\* the number of points in row r of a lattice of num_rows rows whose bottom
\* row has base_num_cols points: one more in each row up to the middle row,
\* one fewer in each row after it
HexRowLength(num_rows, base_num_cols, r) ==
    LET middle_row == num_rows \div 2
    IN  base_num_cols
          + (IF r <= middle_row THEN r ELSE 2 * middle_row - r)

RECURSIVE HexRowSum(_, _, _)
HexRowSum(num_rows, base_num_cols, r) ==
    IF r >= num_rows THEN 0
    ELSE HexRowLength(num_rows, base_num_cols, r)
           + HexRowSum(num_rows, base_num_cols, r + 1)

\* C19: for all num_rows, base_num_cols >= 1, make_hex_points returns an
\* npts equal to the number of points its row loop writes, which is the sum
\* of the row lengths; the call with 3 rows and 2 base columns gives 7.
C19_NptsIsPointsWritten ==
    (last_op = "make_hex_points" /\ arg[1] >= 1 /\ arg[2] >= 1) =>
        /\ raised = ""
        /\ ret.npts = ret.i
        /\ ret.npts = HexRowSum(arg[1], arg[2], 0)
        /\ ALen(ret.pts) = ret.npts
        /\ (arg[1] = 3 /\ arg[2] = 2) => ret.npts = 7

\* make_hex_points(3, 2, 1.0) has returned
C19_Witness ==
    /\ last_op = "make_hex_points"
    /\ arg = <<3, 2, Rat(1)>>
    /\ ret.npts = 7 /\ ret.i = 7
    /\ ret.pts[1] = <<Rat(1), Rat(0)>>
    /\ ret.pts[2][1] = <<-1, 2>>

\* the five boundary-status codes
StatusCodes ==
    {INTERIOR_NODE, FIXED_VALUE_BOUNDARY, FIXED_GRADIENT_BOUNDARY,
     TRACKS_CELL_BOUNDARY, INACTIVE_BOUNDARY}

\* the first statement of the rule: not both ends INACTIVE, and at least
\* one end INTERIOR
NotBothInactiveAndOneInterior(fs, ts) ==
    /\ ~(fs = INACTIVE_BOUNDARY /\ ts = INACTIVE_BOUNDARY)
    /\ (fs = INTERIOR_NODE \/ ts = INTERIOR_NODE)

\* the statuses of the two ends of link l
FromStatus(l) == node_status[link_fromnode[l]]
ToStatus(l) == node_status[link_tonode[l]]

\* C21 as stated: the first statement of the activation rule gives the
\* same answer as the rule reset_list_of_active_links implements, for every
\* pair of statuses and so for every link of a grid.
C21_StatementsAgree ==
    built =>
        /\ \A fs, ts \in StatusCodes :
               LinkIsActive(fs, ts) <=> NotBothInactiveAndOneInterior(fs, ts)
        /\ \A l \in Links :
               (l \in Elems(active_links))
                   <=> NotBothInactiveAndOneInterior(FromStatus(l), ToStatus(l))

\* C21 amended: the two statements agree on every pair of statuses but the
\* pairs of one INTERIOR and one INACTIVE end, which the first statement
\* makes active and the implemented rule makes inactive: a link is active
\* exactly when at least one end is INTERIOR and neither end is INACTIVE.
C21_AgreeButInteriorInactive ==
    built =>
        /\ \A fs, ts \in StatusCodes :
               LinkIsActive(fs, ts) <=>
                   /\ NotBothInactiveAndOneInterior(fs, ts)
                   /\ {fs, ts} # {INTERIOR_NODE, INACTIVE_BOUNDARY}
        /\ \A l \in Links :
               (l \in Elems(active_links)) <=>
                   /\ NotBothInactiveAndOneInterior(FromStatus(l), ToStatus(l))
                   /\ {FromStatus(l), ToStatus(l)}
                          # {INTERIOR_NODE, INACTIVE_BOUNDARY}

\* a grid with a link from an INTERIOR to an INACTIVE node and one from an
\* INACTIVE to an INTERIOR node, neither of them in the active-link list
C21_Witness ==
    /\ built
    /\ \E l \in Links : /\ FromStatus(l) = INTERIOR_NODE
                        /\ ToStatus(l) = INACTIVE_BOUNDARY
                        /\ l \notin Elems(active_links)
    /\ \E l \in Links : /\ FromStatus(l) = INACTIVE_BOUNDARY
                        /\ ToStatus(l) = INTERIOR_NODE
                        /\ l \notin Elems(active_links)
    /\ num_active_links > 0

\* C22: reset_list_of_active_links_slow leaves the same active_links (same
\* IDs, same order), num_active_links, activelink_fromnode and
\* activelink_tonode as the boolean-array derivation of
\* reset_list_of_active_links gives for the same links and node_status.
C22_SlowEqualsFast ==
    (built /\ last_op = "reset_list_of_active_links_slow") =>
        LET al == ActiveLinks(node_status, link_fromnode, link_tonode)
        IN  /\ raised = ""
            /\ active_links = al
            /\ num_active_links = ALen(al)
            /\ activelink_fromnode = Take(link_fromnode, al)
            /\ activelink_tonode = Take(link_tonode, al)

RidgeWidth(geom, l) ==
    LET v0 == geom.vertices[geom.ridge_vertices[l][0]]
        v1 == geom.vertices[geom.ridge_vertices[l][1]]
        ddx == RSub(v1[1], v0[1])
        ddy == RSub(v1[2], v0[2])
    IN  RSqrt(RAdd(RMul(ddx, ddx), RMul(ddy, ddy)))

\* C24: in a built tessellation grid the final active-link list is the list
\* of the links whose ridge has both Voronoi vertices finite, so that for
\* every active link l, face_width[link_face[l]] is the distance between
\* the two Voronoi vertices of the ridge of l.
C24_ActiveLinksAreBoundedRidges ==
    (IsVoronoi /\ last_op = "VoronoiDelaunayGrid.initialize") =>
        /\ active_links = ValidRidges(arg)
        /\ \A k \in DOMAIN active_links :
               LET l == active_links[k]
               IN  /\ link_face[l] \in DOMAIN face_width
                   /\ arg.ridge_vertices[l][0] # NO_VERTEX
                   /\ arg.ridge_vertices[l][1] # NO_VERTEX
                   /\ face_width[link_face[l]] = RidgeWidth(arg, l)

\* matrix M and count array num record exactly, for every node n, the
\* positions in `ends` at which n occurs: ascending in the first rows of
\* column n, the sentinel in the rows left, and num[n] their number
ExactMatrix(M, num, ends) ==
    /\ DOMAIN M = 0..1
    /\ DOMAIN num = Nodes
    /\ \A n \in Nodes :
           LET S == {k \in DOMAIN ends : ends[k] = n}
           IN  /\ num[n] = Cardinality(S)
               /\ Cardinality(S) <= 2
               /\ \A r \in 0..1 :
                      IF r < Cardinality(S)
                      THEN /\ M[r][n] \in S
                           /\ Cardinality({j \in S : j < M[r][n]}) = r
                      ELSE M[r][n] = -1

\* C25: after a raster grid is built and after every boundary operation the
\* adjacency matrices are exact: column n of node_inlink_matrix holds the
\* IDs of the links whose to-node is n, ascending in the first rows and -1
\* below, and node_numinlink[n] is their number; likewise for outlinks and
\* the from-node, and for the active matrices with the positions in the
\* active-link list.
C25_MatricesExact ==
    built =>
        /\ ExactMatrix(node_inlink_matrix, node_numinlink, link_tonode)
        /\ ExactMatrix(node_outlink_matrix, node_numoutlink, link_fromnode)
        /\ ExactMatrix(node_active_inlink_matrix, node_numactiveinlink,
                       [k \in DOMAIN active_links |->
                           link_tonode[active_links[k]]])
        /\ ExactMatrix(node_active_outlink_matrix, node_numactiveoutlink,
                       [k \in DOMAIN active_links |->
                           link_fromnode[active_links[k]]])

\* a 4 x 5 grid after a boundary operation that made nodes INACTIVE: node 6
\* has the inlinks 1 and 19 of which one is left active, node 1 the one
\* inlink 15 and node 0 none
C25_Witness ==
    /\ built /\ nrows = 4 /\ ncols = 5 /\ nops >= 1
    /\ \E n \in Nodes : node_status[n] = INACTIVE_BOUNDARY
    /\ node_inlink_matrix[0][6] = 1 /\ node_inlink_matrix[1][6] = 19
    /\ node_inlink_matrix[0][1] = 15 /\ node_inlink_matrix[1][1] = -1
    /\ node_numinlink[0] = 0 /\ node_numoutlink[19] = 0
    /\ node_outlink_matrix[0][18] = 30
    /\ node_numactiveinlink[6] = 1
    /\ node_active_inlink_matrix[1][6] = -1

\* every entry of matrix M is the sentinel or an index into the active-link
\* list
EntriesInRange(M) ==
    \A r \in DOMAIN M : \A n \in DOMAIN M[r] :
        M[r][n] = NO_LINK \/ M[r][n] \in 0..(num_active_links - 1)

\* C26: the sentinel gather is safe in every reachable state of a raster
\* grid: no node has more than two active inlinks or two active outlinks,
\* every entry of the active inlink and outlink matrices is -1 or an index
\* in 0..num_active_links-1, and in calculate_flux_divergence_at_nodes an
\* empty slot adds exactly 0 to the sum of its node.
C26_SentinelGatherSafe ==
    /\ \A n \in DOMAIN node_numactiveinlink :
           /\ node_numactiveinlink[n] <= 2
           /\ Cardinality({k \in DOMAIN activelink_tonode :
                              activelink_tonode[k] = n}) <= 2
    /\ \A n \in DOMAIN node_numactiveoutlink :
           /\ node_numactiveoutlink[n] <= 2
           /\ Cardinality({k \in DOMAIN activelink_fromnode :
                              activelink_fromnode[k] = n}) <= 2
    /\ EntriesInRange(node_active_inlink_matrix)
    /\ EntriesInRange(node_active_outlink_matrix)
    /\ last_op = "calculate_flux_divergence_at_nodes" =>
           \A n \in Nodes :
               RMul(ret[n], Rat(cellarea)) = NodeNetFlux(arg, n)

\* C27: the links of a raster grid of R >= 3 rows and C >= 3 columns are
\* numbered in two passes: link k with 0 <= k < C*(R-1) is the vertical link
\* from node k to node k+C, and link C*(R-1) + r*(C-1) + c with 0 <= r < R
\* and 0 <= c < C-1 is the horizontal link from node r*C+c to node r*C+c+1;
\* so every link joins two distinct nodes of the grid and no two nodes are
\* linked twice.
C27_LinkNumbering ==
    built =>
        LET R == nrows
            C == ncols
        IN  /\ DOMAIN link_fromnode = 0..(C * (R - 1) + R * (C - 1) - 1)
            /\ DOMAIN link_tonode = DOMAIN link_fromnode
            /\ \A k \in 0..(C * (R - 1) - 1) :
                   link_fromnode[k] = k /\ link_tonode[k] = k + C
            /\ \A r \in 0..(R - 1), c \in 0..(C - 2) :
                   /\ link_fromnode[C * (R - 1) + r * (C - 1) + c] = r * C + c
                   /\ link_tonode[C * (R - 1) + r * (C - 1) + c] = r * C + c + 1
            /\ \A l \in DOMAIN link_fromnode :
                   /\ link_fromnode[l] \in 0..(R * C - 1)
                   /\ link_tonode[l] \in 0..(R * C - 1)
                   /\ link_fromnode[l] # link_tonode[l]
            /\ \A l, m \in DOMAIN link_fromnode :
                   {link_fromnode[l], link_tonode[l]}
                     = {link_fromnode[m], link_tonode[m]} => l = m

\* the 4 x 5 grid of the doctest: link 14 is the last vertical link, from
\* node 14 to node 19, link 15 the first horizontal one, from node 0 to
\* node 1, and link 30 the last, from node 18 to node 19
C27_Witness ==
    /\ built /\ nrows = 4 /\ ncols = 5 /\ num_links = 31
    /\ link_fromnode[14] = 14 /\ link_tonode[14] = 19
    /\ link_fromnode[15] = 0 /\ link_tonode[15] = 1
    /\ link_fromnode[30] = 18 /\ link_tonode[30] = 19

\* C28: immediately after a raster grid is built with its default
\* boundaries, the face ID of every active link is its position in the
\* active-link list, a link has a face only if it is active, and num_faces
\* is the number of active links.
C28_FaceIsActivePosition ==
    (built /\ nops = 0 /\ last_op \in {"initialize", "RasterModelGrid"}) =>
        /\ DOMAIN link_face = Links
        /\ \A k \in DOMAIN active_links : link_face[active_links[k]] = k
        /\ \A l \in Links :
               link_face[l] # BAD_INDEX_VALUE => l \in Elems(active_links)
        /\ num_faces = ALen(active_links)
        /\ num_faces = num_active_links

\* the 4 x 5 grid of the doctest, just built: link 20 is the active link at
\* position 10 and has face 10; link 0 has no face; there are 17 faces
C28_Witness ==
    /\ built /\ nops = 0 /\ last_op = "RasterModelGrid"
    /\ nrows = 4 /\ ncols = 5
    /\ active_links[10] = 20 /\ link_face[20] = 10
    /\ link_face[0] = BAD_INDEX_VALUE
    /\ num_faces = 17

\* the number of the points returned by make_hex_points that lie in row r:
\* those whose y is r * dxv
HexPointsInRow(r) ==
    Cardinality({i \in DOMAIN ret.pts :
                    ret.pts[i][2] = RMul(Rat(r), RMul(arg[3], <<1, 2>>))})

\* C29: in the points of make_hex_points(R, B, dx), for R, B >= 1, the
\* bottom row and the top row hold exactly B points each and the rows
\* between them hold more: the row length grows by one per row up to the
\* middle row and shrinks by one per row after it.
C29_HexRowLengths ==
    (last_op = "make_hex_points" /\ arg[1] >= 1 /\ arg[2] >= 1) =>
        LET R == arg[1]
            B == arg[2]
            middle_row == R \div 2
        IN  /\ HexPointsInRow(0) = B
            /\ HexPointsInRow(R - 1) = B
            /\ \A r \in 1..(R - 2) : HexPointsInRow(r) > B
            /\ \A r \in 0..(R - 2) :
                   HexPointsInRow(r + 1) =
                       IF r < middle_row THEN HexPointsInRow(r) + 1
                                         ELSE HexPointsInRow(r) - 1

\* the edges of the triangles of tri, as unordered pairs of nodes
TriangleEdges(tri) ==
    {{tri.simplices[t][a], tri.simplices[t][b]} :
        <<t, a, b>> \in {x \in (0..(tri.nsimplex - 1)) \X (0..2) \X (0..2) :
                            x[2] < x[3]}}

\* C30: create_links_from_triangulation adds every triangle edge exactly
\* once: the sweep raises nothing, the number of links it writes is
\* num_links = 3*T - S/2 (T triangles, S neighbor entries greater than -1),
\* which is the length of both arrays, every edge of a triangle is a link and
\* every link is an edge of a triangle, and no two links join the same pair
\* of nodes.
C30_EveryEdgeOnce ==
    last_op = "create_links_from_triangulation" =>
        LET T == arg.nsimplex
            S == Cardinality({x \in (0..(T - 1)) \X (0..2) :
                                 arg.neighbors[x[1]][x[2]] > -1})
            ends(l) == {ret.link_fromnode[l], ret.link_tonode[l]}
        IN  /\ raised = ""
            /\ S % 2 = 0
            /\ ret.num_links = 3 * T - S \div 2
            /\ ret.link_id = ret.num_links
            /\ DOMAIN ret.link_fromnode = 0..(ret.num_links - 1)
            /\ DOMAIN ret.link_tonode = 0..(ret.num_links - 1)
            /\ {ends(l) : l \in 0..(ret.num_links - 1)} = TriangleEdges(arg)
            /\ \A l, m \in 0..(ret.num_links - 1) : ends(l) = ends(m) => l = m
            /\ Cardinality(TriangleEdges(arg)) = ret.num_links

\* a triangulation of eight triangles, with edges shared by a triangle done
\* earlier, edges shared by one done later and unshared edges, has been swept
C30_Witness ==
    /\ last_op = "create_links_from_triangulation"
    /\ raised = ""
    /\ arg.nsimplex = 8
    /\ ret.num_links = 16
    /\ \E t \in 0..7 : \E i, k, m \in 0..2 :
          /\ arg.neighbors[t][i] = -1
          /\ arg.neighbors[t][k] > t
          /\ arg.neighbors[t][m] > -1 /\ arg.neighbors[t][m] < t
====
